---- MODULE Spec2Model ----
(***************************************************************************)
(* Pay-Per-Thought agent: the X402PaymentGate ledger (Solidity) with the   *)
(* ERC-20 token it escrows, and the Executor (TypeScript) that drives a    *)
(* plan through authorize -> tool -> confirm/refund.                       *)
(*                                                                         *)
(* Token amounts are uint256 in the contract.  The model bounds every      *)
(* amount argument by MaxAmount, so no sum of the model comes near 2^256   *)
(* and the checked additions of the mutating functions cannot overflow.    *)
(* A reverted call leaves the EVM state as it found it: each call is one   *)
(* action that either applies all its writes or none, and records in       *)
(* lastCall what was called and how it ended.                              *)
(***************************************************************************)
EXTENDS Integers, Sequences, FiniteSets, TLC

\* ------------------------------------------------------------- bounds
\* Largest amount argument of lockBudget / authorizePayment / settleBudget.
MaxAmount == 2
\* Largest stepCount argument of lockBudget.
MaxStepCount == 1
\* Tokens minted to the payer, and approved for the gate, before the first call.
InitialFunds == 3
\* Longest plan passed to executeAll.
MaxPlanLen == 2
\* executeAll calls made on one Executor.
MaxRuns == 1
\* Largest budget, in thousandths of a USD, locked for a session that an
\* Executor runs against.
MaxBudget == 100
\* Provenance strings the step results given to one synthesize call carry.
MaxSources == 4
\* Step results pushed to the array a synthesize call was given, from the call
\* on.
MaxPushes == 1

\* ---------------------------------------------------------- identities
NoAddress == "0x0"
operator == "operator"
Payer == "payer"
Stranger == "stranger"
Gate == "gate"
Callers == {Payer, Stranger, operator}
Addresses == Callers \cup {Gate}

SessionIds == {"s1", "s2"}
StepIds == {"step_0", "step_1"}
Amounts == 0..MaxAmount
StepCounts == 0..MaxStepCount

\* The tools the steps of the model's plans name: two the Executor knows, with
\* different costs, and one it does not.
PlanTools == {"tavily", "reasoning", "unknown_tool"}

NoStep == "-"
Ok == "ok"

VARIABLES
    sessions,      \* mapping(bytes32 => Session)
    stepPayments,  \* mapping(bytes32 => mapping(bytes32 => StepPayment))
    balanceOf,     \* the payment token's balances
    allowance,     \* the payment token's allowance[holder][spender]
    lastCall       \* the last external call made to the gate or to the token,
                   \* and its outcome

ledgerVars == <<sessions, stepPayments, balanceOf, allowance, lastCall>>

VARIABLES
    onchain,         \* config.x402ContractAddress is set and not the zero address
    stepResults,     \* Executor.stepResults
    execTotalSpent,  \* Executor.totalSpent, a double
    plan,            \* the plan passed to the executeAll call in progress
    halted,          \* executeAll's local `halted`
    pos,             \* 1-based position of the loop in plan.steps
    pc,              \* where executeAll stands: idle, authorize, tool, confirm,
                     \* refund, return, or threw (the promise rejected)
    trace,           \* the run's awaited calls (authorizePayment, executeTool,
                     \* confirmPayment, refundPayment) and how each ended, in order
    returned,        \* what the last executeAll call returned (NoReturn before)
    runs,            \* executeAll calls started on this Executor
    awaited          \* the payment call executeAll awaits: not settled yet, or
                     \* settled with the continuation still to run

\* The Executor's configuration, which no step changes.
config == <<onchain>>

execVars == <<onchain, stepResults, execTotalSpent, plan, halted,
              pos, pc, trace, returned, runs, awaited>>

VARIABLES
    synthArgs,  \* the arguments of the synthesize call: stepResults,
                \* totalSpent, wasHalted, sessionId; stepResults is the
                \* caller's array, which holds what its owner has pushed so far
    response,   \* what that call came to: nothing yet, suspended at its await
                \* with what it has computed, the AgentResponse it resolved
                \* to, or the error it rejected with
    pushed      \* step results pushed to that array since the call

synthVars == <<synthArgs, response, pushed>>

VARIABLES
    planArgs,  \* the step list the planning model returned and the maxBudget
               \* argument of the generatePlan call
    planned    \* the ExecutionPlan generatePlan returned (NoPlanned before)

plannerVars == <<planArgs, planned>>

\* What the Executor's and the gate's steps leave alone.
otherVars == <<synthVars, plannerVars>>

vars == <<sessions, stepPayments, balanceOf, allowance, lastCall,
          onchain, stepResults, execTotalSpent, plan, halted, pos,
          pc, trace, returned, runs, awaited, synthArgs, response, pushed,
          planArgs,
          planned>>

\* A mapping slot that was never written reads as all-zero.
EmptySession ==
    [payer |-> NoAddress, totalLocked |-> 0, totalSpent |-> 0,
     stepCount |-> 0, settled |-> FALSE]

EmptyStep ==
    [amount |-> 0, authorized |-> FALSE, confirmed |-> FALSE, refunded |-> FALSE]

NoCall ==
    [op |-> "none", caller |-> NoAddress, sid |-> NoStep, step |-> NoStep,
     amount |-> 0, stepCount |-> 0, from |-> NoAddress, to |-> NoAddress,
     ok |-> TRUE, err |-> Ok]

\* A call to the gate.
Call(op, caller, sid, step, amount, sc, err) ==
    [op |-> op, caller |-> caller, sid |-> sid, step |-> step,
     amount |-> amount, stepCount |-> sc, from |-> NoAddress, to |-> NoAddress,
     ok |-> (err = Ok), err |-> err]

\* A call to the token: `from` is the holder debited (none for mint, the
\* approving holder for approve), `to` the receiver or the spender.
TokenCall(op, caller, from, to, amount, err) ==
    [op |-> op, caller |-> caller, sid |-> NoStep, step |-> NoStep,
     amount |-> amount, stepCount |-> 0, from |-> from, to |-> to,
     ok |-> (err = Ok), err |-> err]

\* ------------------------------------------------------------ the token
TokenTransferRevert(bal, from, amount) ==
    IF bal[from] >= amount THEN Ok ELSE "Insufficient balance"

\* The two require lines of transferFrom, called by `spender`.
TokenTransferFromRevert(bal, allow, from, spender, amount) ==
    IF bal[from] < amount THEN "Insufficient balance"
    ELSE IF allow[from][spender] < amount THEN "Insufficient allowance"
    ELSE Ok

\* balanceOf[from] -= amount; balanceOf[to] += amount
TokenMove(bal, from, to, amount) ==
    LET debited == [bal EXCEPT ![from] = @ - amount]
    IN  [debited EXCEPT ![to] = @ + amount]

\* totalSupply: what mint has added up, which is what the holders hold.
RECURSIVE SumBalances(_, _)
SumBalances(bal, holders) ==
    IF holders = {} THEN 0
    ELSE LET a == CHOOSE x \in holders : TRUE
         IN  bal[a] + SumBalances(bal, holders \ {a})

totalSupply == SumBalances(balanceOf, Addresses)

\* The model's tokens stop being minted at this supply.
MaxSupply == InitialFunds + 1

\* mint(to, amount), open to every caller.
mint(caller, to, amount) ==
    /\ totalSupply + amount <= MaxSupply
    /\ lastCall' = TokenCall("mint", caller, NoAddress, to, amount, Ok)
    /\ balanceOf' = [balanceOf EXCEPT ![to] = @ + amount]
    /\ UNCHANGED <<sessions, stepPayments, allowance>>

\* approve(spender, amount): the caller's allowance to spender is replaced.
approve(caller, spender, amount) ==
    /\ lastCall' = TokenCall("approve", caller, caller, spender, amount, Ok)
    /\ allowance' = [allowance EXCEPT ![caller][spender] = amount]
    /\ UNCHANGED <<sessions, stepPayments, balanceOf>>

\* transfer(to, amount), from the caller's balance.
transfer(caller, to, amount) ==
    LET err == TokenTransferRevert(balanceOf, caller, amount) IN
    /\ lastCall' = TokenCall("transfer", caller, caller, to, amount, err)
    /\ balanceOf' = IF err = Ok THEN TokenMove(balanceOf, caller, to, amount)
                    ELSE balanceOf
    /\ UNCHANGED <<sessions, stepPayments, allowance>>

\* transferFrom(from, to, amount), on the allowance `from` gave the caller.
transferFrom(caller, from, to, amount) ==
    LET err == TokenTransferFromRevert(balanceOf, allowance, from, caller, amount)
    IN  /\ lastCall' = TokenCall("transferFrom", caller, from, to, amount, err)
        /\ IF err = Ok
           THEN /\ allowance' = [allowance EXCEPT ![from][caller] = @ - amount]
                /\ balanceOf' = TokenMove(balanceOf, from, to, amount)
           ELSE UNCHANGED <<balanceOf, allowance>>
        /\ UNCHANGED <<sessions, stepPayments>>

\* ------------------------------------------------------------ modifiers
onlyOperator_OrPayer(caller) == caller = operator \/ caller = Payer

onlyOperator(caller) == caller = operator

sessionExists(sid) == sessions[sid].payer # NoAddress

sessionNotSettled_Unchecked(sid) == TRUE

sessionNotSettled(sid) == ~sessions[sid].settled

\* The three modifiers in the order every operator function lists them.
ModifiersRevert(caller, sid) ==
    IF ~onlyOperator(caller) THEN "X402: caller is not operator"
    ELSE IF ~sessionExists(sid) THEN "X402: session not found"
    ELSE IF ~sessionNotSettled(sid) THEN "X402: session already settled"
    ELSE Ok

\* ------------------------------------------------------------ lockBudget
lockBudgetRevert_NoDuplicateCheck(caller, sid, totalAmount, sc) ==
    IF ~(totalAmount > 0) THEN "X402: zero amount"
    ELSE IF ~(sc > 0) THEN "X402: zero steps"
    ELSE TokenTransferFromRevert(balanceOf, allowance, caller, Gate, totalAmount)

lockBudgetRevert(caller, sid, totalAmount, sc) ==
    IF sessions[sid].payer # NoAddress THEN "X402: session exists"
    ELSE IF ~(totalAmount > 0) THEN "X402: zero amount"
    ELSE IF ~(sc > 0) THEN "X402: zero steps"
    ELSE TokenTransferFromRevert(balanceOf, allowance, caller, Gate, totalAmount)

NewSession_SwappedFields(caller, totalAmount, sc) ==
    [payer |-> caller, totalLocked |-> sc, totalSpent |-> 0,
     stepCount |-> totalAmount, settled |-> FALSE]

\* sessions[sessionId] = Session({...})
NewSession(caller, totalAmount, sc) ==
    [payer |-> caller, totalLocked |-> totalAmount, totalSpent |-> 0,
     stepCount |-> sc, settled |-> FALSE]

lockBudget(caller, sid, totalAmount, sc) ==
    LET err == lockBudgetRevert(caller, sid, totalAmount, sc) IN
    /\ lastCall' = Call("lockBudget", caller, sid, NoStep, totalAmount, sc, err)
    /\ IF err = Ok
       THEN /\ allowance' = [allowance EXCEPT ![caller][Gate] = @ - totalAmount]
            /\ balanceOf' = TokenMove(balanceOf, caller, Gate, totalAmount)
            /\ sessions' = [sessions EXCEPT ![sid] =
                                NewSession(caller, totalAmount, sc)]
            /\ UNCHANGED stepPayments
       ELSE UNCHANGED <<sessions, stepPayments, balanceOf, allowance>>

\* ------------------------------------------------------ authorizePayment
authorizePaymentRevert_NoStepCheck(caller, sid, step, amount) ==
    IF ModifiersRevert(caller, sid) # Ok THEN ModifiersRevert(caller, sid)
    ELSE IF ~(sessions[sid].totalSpent + amount <= sessions[sid].totalLocked)
         THEN "X402: exceeds budget"
    ELSE Ok

authorizePaymentRevert_StrictBudget(caller, sid, step, amount) ==
    IF ModifiersRevert(caller, sid) # Ok THEN ModifiersRevert(caller, sid)
    ELSE IF ~(sessions[sid].totalSpent + amount < sessions[sid].totalLocked)
         THEN "X402: exceeds budget"
    ELSE IF stepPayments[sid][step].authorized
         THEN "X402: step already authorized"
    ELSE Ok

authorizePaymentRevert(caller, sid, step, amount) ==
    IF ModifiersRevert(caller, sid) # Ok THEN ModifiersRevert(caller, sid)
    ELSE IF ~(sessions[sid].totalSpent + amount <= sessions[sid].totalLocked)
         THEN "X402: exceeds budget"
    ELSE IF stepPayments[sid][step].authorized
         THEN "X402: step already authorized"
    ELSE Ok

authorizePayment(caller, sid, step, amount) ==
    LET err == authorizePaymentRevert(caller, sid, step, amount) IN
    /\ lastCall' = Call("authorizePayment", caller, sid, step, amount, 0, err)
    /\ IF err = Ok
       THEN stepPayments' = [stepPayments EXCEPT ![sid][step] =
                [amount |-> amount, authorized |-> TRUE,
                 confirmed |-> FALSE, refunded |-> FALSE]]
       ELSE UNCHANGED stepPayments
    /\ UNCHANGED <<sessions, balanceOf, allowance>>

\* ------------------------------------------- confirmExecution and refund
StepRequiresRevert_NoConfirmedCheck(sid, step) ==
    IF ~stepPayments[sid][step].authorized THEN "X402: step not authorized"
    ELSE IF stepPayments[sid][step].refunded THEN "X402: already refunded"
    ELSE Ok

\* The three require lines shared by confirmExecution and refund.
StepRequiresRevert(sid, step) ==
    IF ~stepPayments[sid][step].authorized THEN "X402: step not authorized"
    ELSE IF stepPayments[sid][step].confirmed THEN "X402: already confirmed"
    ELSE IF stepPayments[sid][step].refunded THEN "X402: already refunded"
    ELSE Ok

confirmExecutionRevert(caller, sid, step) ==
    IF ModifiersRevert(caller, sid) # Ok THEN ModifiersRevert(caller, sid)
    ELSE StepRequiresRevert(sid, step)

confirmExecution(caller, sid, step) ==
    LET err == confirmExecutionRevert(caller, sid, step) IN
    /\ lastCall' = Call("confirmExecution", caller, sid, step, 0, 0, err)
    /\ IF err = Ok
       THEN /\ stepPayments' = [stepPayments EXCEPT ![sid][step].confirmed = TRUE]
            /\ sessions' = [sessions EXCEPT ![sid].totalSpent =
                                @ + stepPayments[sid][step].amount]
       ELSE UNCHANGED <<sessions, stepPayments>>
    /\ UNCHANGED <<balanceOf, allowance>>

refundRevert(caller, sid, step) ==
    IF ModifiersRevert(caller, sid) # Ok THEN ModifiersRevert(caller, sid)
    ELSE StepRequiresRevert(sid, step)

RefundedStep_Reopened(sp) == [sp EXCEPT !.refunded = TRUE, !.authorized = FALSE]

\* step.refunded = true
RefundedStep(sp) == [sp EXCEPT !.refunded = TRUE]

refund_PaysBack(caller, sid, step) ==
    LET err == refundRevert(caller, sid, step) IN
    /\ lastCall' = Call("refund", caller, sid, step, 0, 0, err)
    /\ IF err = Ok
       THEN /\ stepPayments' = [stepPayments EXCEPT ![sid][step] = RefundedStep(@)]
            /\ balanceOf' = TokenMove(balanceOf, Gate, sessions[sid].payer,
                                      stepPayments[sid][step].amount)
       ELSE UNCHANGED <<stepPayments, balanceOf>>
    /\ UNCHANGED <<sessions, allowance>>

refund(caller, sid, step) ==
    LET err == refundRevert(caller, sid, step) IN
    /\ lastCall' = Call("refund", caller, sid, step, 0, 0, err)
    /\ IF err = Ok
       THEN stepPayments' = [stepPayments EXCEPT ![sid][step] = RefundedStep(@)]
       ELSE UNCHANGED stepPayments
    /\ UNCHANGED <<sessions, balanceOf, allowance>>

\* ---------------------------------------------------------- settleBudget
SettleTransfers_WholeBalance(bal, payer, locked, totalSpent) ==
    LET refundAmount == bal[Gate] - totalSpent
        afterRefund == IF refundAmount > 0
                       THEN TokenMove(bal, Gate, payer, refundAmount) ELSE bal
    IN  IF totalSpent > 0
        THEN TokenMove(afterRefund, Gate, operator, totalSpent) ELSE afterRefund

SettleTransfers_RefundOnly(bal, payer, locked, totalSpent) ==
    LET refundAmount == locked - totalSpent
    IN  IF refundAmount > 0
        THEN TokenMove(bal, Gate, payer, refundAmount) ELSE bal

SettleTransfers_Swapped(bal, payer, locked, totalSpent) ==
    LET refundAmount == locked - totalSpent
        afterRefund == IF refundAmount > 0
                       THEN TokenMove(bal, Gate, operator, refundAmount) ELSE bal
    IN  IF totalSpent > 0
        THEN TokenMove(afterRefund, Gate, payer, totalSpent) ELSE afterRefund

\* The balances after settleBudget's two conditional transfers.
SettleTransfers(bal, payer, locked, totalSpent) ==
    LET refundAmount == locked - totalSpent
        afterRefund == IF refundAmount > 0
                       THEN TokenMove(bal, Gate, payer, refundAmount) ELSE bal
    IN  IF totalSpent > 0
        THEN TokenMove(afterRefund, Gate, operator, totalSpent) ELSE afterRefund

settleBudgetBodyRevert_MustMatchLedger(sid, totalSpent) ==
    IF ~(totalSpent <= sessions[sid].totalLocked)
         THEN "X402: spent exceeds locked"
    ELSE IF totalSpent # sessions[sid].totalSpent
         THEN "X402: spent differs from ledger"
    ELSE Ok

\* The checks of settleBudget after its modifiers.
settleBudgetBodyRevert(sid, totalSpent) ==
    IF ~(totalSpent <= sessions[sid].totalLocked)
         THEN "X402: spent exceeds locked"
    ELSE LET refundAmount == sessions[sid].totalLocked - totalSpent
             afterRefund == IF refundAmount > 0
                            THEN TokenMove(balanceOf, Gate, sessions[sid].payer,
                                           refundAmount)
                            ELSE balanceOf
         IN  IF refundAmount > 0
                /\ TokenTransferRevert(balanceOf, Gate, refundAmount) # Ok
             THEN TokenTransferRevert(balanceOf, Gate, refundAmount)
             ELSE IF totalSpent > 0
                  THEN TokenTransferRevert(afterRefund, Gate, totalSpent)
                  ELSE Ok

settleBudgetRevert_NoSettledCheck(caller, sid, totalSpent) ==
    IF ~onlyOperator(caller) THEN "X402: caller is not operator"
    ELSE IF ~sessionExists(sid) THEN "X402: session not found"
    ELSE settleBudgetBodyRevert(sid, totalSpent)

settleBudgetRevert(caller, sid, totalSpent) ==
    IF ModifiersRevert(caller, sid) # Ok THEN ModifiersRevert(caller, sid)
    ELSE settleBudgetBodyRevert(sid, totalSpent)

settleBudget(caller, sid, totalSpent) ==
    LET err == settleBudgetRevert(caller, sid, totalSpent) IN
    /\ lastCall' = Call("settleBudget", caller, sid, NoStep, totalSpent, 0, err)
    /\ IF err = Ok
       THEN /\ sessions' = [sessions EXCEPT ![sid].totalSpent = totalSpent,
                                            ![sid].settled = TRUE]
            /\ balanceOf' = SettleTransfers(balanceOf, sessions[sid].payer,
                                            sessions[sid].totalLocked, totalSpent)
       ELSE UNCHANGED <<sessions, balanceOf>>
    /\ UNCHANGED <<stepPayments, allowance>>

\* -------------------------------------------------------- view functions
\* session.totalLocked - session.totalSpent, a checked uint256 subtraction:
\* the call panics (ok = FALSE) when the difference would be negative.
getRemainingBudget(sid) ==
    IF sessions[sid].totalLocked - sessions[sid].totalSpent < 0
    THEN [ok |-> FALSE, value |-> 0]
    ELSE [ok |-> TRUE,
          value |-> sessions[sid].totalLocked - sessions[sid].totalSpent]

isStepAuthorized(sid, step) == stepPayments[sid][step].authorized

isStepConfirmed(sid, step) == stepPayments[sid][step].confirmed

\* ============================================================ numbers
\* The TypeScript side computes with the numbers of its runtime, IEEE 754
\* doubles.  A double below 1/2 that is a multiple of 2^-62 is held as
\* [hi, lo], its value (hi * 2^30 + lo) * 2^-62 with 0 <= lo < 2^30; every
\* cost, every budget and every sum and difference of the model is such a
\* number.  A decimal literal of the source is named by its thousandths.
Two30 == 1073741824
Two15 == 32768

RECURSIVE BitLength(_)
BitLength(n) == IF n = 0 THEN 0 ELSE 1 + BitLength(n \div 2)

RECURSIVE TwoTo(_)
TwoTo(k) == IF k = 0 THEN 1 ELSE 2 * TwoTo(k - 1)

\* Round hi * 2^30 + lo, followed by a tail below its last bit that is zero
\* (sticky FALSE) or not, to 53 significant bits: to nearest, ties to even.
RoundSticky(hi, lo, sticky, tailAtLeastHalf, tailOverHalf) ==
    LET shift == BitLength(hi) - 23 IN
    IF shift < 0 THEN [hi |-> hi, lo |-> lo]
    ELSE LET unit == TwoTo(shift)
             rest == lo % unit
             half == unit \div 2
             up == IF shift = 0
                   THEN tailOverHalf \/ (tailAtLeastHalf /\ lo % 2 = 1)
                   ELSE \/ rest > half
                        \/ rest = half /\ (sticky \/ (lo \div unit) % 2 = 1)
             rounded == lo - rest + (IF up THEN unit ELSE 0)
         IN  IF rounded = Two30 THEN [hi |-> hi + 1, lo |-> 0]
             ELSE [hi |-> hi, lo |-> rounded]

\* The same for a number that ends at 2^-62.
RoundToDouble(hi, lo) == RoundSticky(hi, lo, FALSE, FALSE, FALSE)

\* a + b
DoubleAdd(a, b) ==
    LET lo == a.lo + b.lo IN
    RoundToDouble(a.hi + b.hi + lo \div Two30, lo % Two30)

\* a - b, for a >= b
DoubleSub(a, b) ==
    LET borrow == IF a.lo < b.lo THEN 1 ELSE 0 IN
    RoundToDouble(a.hi - b.hi - borrow, a.lo - b.lo + borrow * Two30)

\* a >= b and a > b
DoubleGe(a, b) == a.hi > b.hi \/ (a.hi = b.hi /\ a.lo >= b.lo)
DoubleGt(a, b) == a.hi > b.hi \/ (a.hi = b.hi /\ a.lo > b.lo)

DoubleZero == [hi |-> 0, lo |-> 0]

\* a - b of any two of them: the sign and the magnitude of the difference.
DoubleMinus(a, b) ==
    IF DoubleGe(a, b) THEN [negative |-> FALSE, abs |-> DoubleSub(a, b)]
    ELSE [negative |-> TRUE, abs |-> DoubleSub(b, a)]

\* The double a decimal literal denotes, by its thousandths (0.01 by 10): the
\* binary expansion of thousandths / 1000 by long division, 15 bits at a
\* time and 2 at the end, rounded to 53 bits.
DoubleOf(thousandths) ==
    LET n1 == thousandths * Two15
        n2 == (n1 % 1000) * Two15
        n3 == (n2 % 1000) * Two15
        n4 == (n3 % 1000) * Two15
        n5 == (n4 % 1000) * 4
        d3 == n3 \div 1000
        tail == n5 % 1000
    IN  RoundSticky((n1 \div 1000) * 131072 + (n2 \div 1000) * 4 + d3 \div 8192,
                    (d3 % 8192) * 131072 + (n4 \div 1000) * 4 + n5 \div 1000,
                    tail > 0, 2 * tail >= 1000, 2 * tail > 1000)

\* ============================================================ Executor
\* The costs of the table and the estimates of the steps are decimal literals,
\* named by their thousandths of a USD; what the code computes from them is a
\* double.
ToolTypes == {"anthropic", "tavily", "blockchain_rpc", "reasoning"}

COST_PER_TOOL ==
    [t \in ToolTypes |->
        CASE t = "anthropic" -> 80
          [] t = "tavily" -> 10
          [] t = "blockchain_rpc" -> 1
          [] t = "reasoning" -> 50]

\* The ids the plans of the model give their steps, by position.
PlanStepIds == <<"step_0", "step_1", "step_2", "step_3">>

NoPlan == [session_id |-> NoStep, steps |-> <<>>, step_count |-> 0]
NoReturn == [results |-> <<>>, totalSpent |-> DoubleZero, halted |-> FALSE,
             run |-> 0]

\* A Step object at array position k, as a caller of executeAll writes it:
\* the tool and the estimate are what the caller put there.
Step(k, tool, estimate) ==
    [id |-> PlanStepIds[k], index |-> k - 1, tool |-> tool,
     estimated_cost_usd |-> estimate]

\* The estimate the plans of the model give a step of `tool`: the table's
\* cost where the table has the tool, the cost of a search where it has not.
EstimateOf(tool) ==
    IF tool \in ToolTypes THEN COST_PER_TOOL[tool] ELSE COST_PER_TOOL["tavily"]

\* The plans executeAll is called with: up to MaxPlanLen steps, each with one of
\* the tools the plans of the model use.
PlanOf(tools) ==
    [session_id |-> "s1",
     steps |-> [k \in 1..Len(tools) |-> Step(k, tools[k], EstimateOf(tools[k]))],
     step_count |-> Len(tools)]

\* Step ids that are no strings, which a plan read from JSON can hold where
\* the Step type says string; each is written as a string that no string id of
\* the model's plans equals.
\* The id null: Buffer.from rejects it, as it does undefined, a number, a
\* boolean and an object that is neither an array nor array-like.
NullId == "<null>"
\* The id [115, 116]: Buffer.from takes an array (or an array-like object, or
\* { type: "Buffer", data }) as the bytes themselves.
BytesId == "<[115, 116]>"

\* The plan `pl` with the id of its step at position `at` replaced by `id`;
\* position 0 leaves the plan as it is.
WithId(pl, at, id) ==
    [pl EXCEPT !.steps = [k \in 1..Len(pl.steps) |->
                             IF k = at THEN [pl.steps[k] EXCEPT !.id = id]
                             ELSE pl.steps[k]]]

Plans == UNION { { WithId(PlanOf(tools), at, id) :
                     tools \in [1..n -> PlanTools], at \in 0..n,
                     id \in {NullId, BytesId} } :
                 n \in 0..MaxPlanLen }

Event(kind, ok) ==
    [kind |-> kind, pos |-> pos, step_id |-> plan.steps[pos].id, ok |-> ok]

StepResult(step, status, cost) ==
    [step_id |-> step.id, index |-> step.index, status |-> status,
     tool |-> step.tool, actual_cost_usd |-> cost]

NextIteration_ReturnsEarly(p) == "return"

\* Where the for-loop goes after the body ran for the step at `p`.
NextIteration(p) == IF p < Len(plan.steps) THEN "authorize" ELSE "return"

\* executeAll(plan), up to the first await, as one of at most `most` calls
\* made on the Executor.
executeAllWithin(pl, most) ==
    /\ pc = "idle"
    /\ runs < most
    /\ runs' = runs + 1
    /\ plan' = pl
    /\ halted' = FALSE
    /\ pos' = 1
    /\ trace' = <<>>
    /\ pc' = IF Len(pl.steps) = 0 THEN "return" ELSE "authorize"
    /\ UNCHANGED <<config, stepResults, execTotalSpent, returned, awaited>>

executeAllStart(pl) == executeAllWithin(pl, MaxRuns)

\* The payment call executeAll awaits has not settled, or has settled and its
\* continuation has not run yet.
NotSettled == [settled |-> FALSE, ok |-> FALSE]
Settled(ok) == [settled |-> TRUE, ok |-> ok]

\* hashStepId: the hex of the bytes Buffer.from(stepId) makes of the id,
\* zero-padded to 32 bytes.  Buffer.from throws a TypeError on null; of a string
\* it makes the string's bytes and of an array the array's elements.  The hash
\* is named here by the string whose bytes it encodes ("st" for the bytes 115
\* and 116).
hashStepId(stepId) ==
    IF stepId = NullId THEN [ok |-> FALSE, hash |-> NoStep]
    ELSE IF stepId = BytesId THEN [ok |-> TRUE, hash |-> "st"]
    ELSE [ok |-> TRUE, hash |-> stepId]

\* callContract logs the method and its arguments and resolves with a simulated
\* transaction hash: it sends nothing to the gate and never rejects.
callContract(method, args) == [ok |-> TRUE]

\* Executor.authorizePayment.  With a contract address, hashStepId and
\* callContract run inside the try, whose catch turns an exception into
\* authorized: false; without one the simulated branch authorizes.
authorizePaymentResult(step) ==
    IF onchain
    THEN LET stepIdHash == hashStepId(step.id) IN
         IF ~stepIdHash.ok THEN [authorized |-> FALSE]
         ELSE [authorized |->
                   callContract("authorizePayment",
                                <<stepIdHash.hash, step.estimated_cost_usd>>).ok]
    ELSE [authorized |-> TRUE]

\* Executor.confirmPayment and Executor.refundPayment: with a contract address
\* the call of hashStepId and callContract, then the log line; whether the
\* promise resolves.  The id is the one authorizePayment has hashed before.
confirmPaymentResolves(stepId) ==
    IF onchain
    THEN LET stepIdHash == hashStepId(stepId) IN
         stepIdHash.ok /\ callContract("confirmExecution", <<stepIdHash.hash>>).ok
    ELSE TRUE

refundPaymentResolves(stepId) ==
    IF onchain
    THEN LET stepIdHash == hashStepId(stepId) IN
         stepIdHash.ok /\ callContract("refund", <<stepIdHash.hash>>).ok
    ELSE TRUE

AfterAuthorize_NoBreak(payment) == "tool"

\* The branch on payment.authorized: a denial ends the loop.
AfterAuthorize(payment) == IF ~payment.authorized THEN "return" ELSE "tool"

HaltedOnDenial_Unset == FALSE

\* halted = true, in the denial branch.
HaltedOnDenial == TRUE

\* One loop iteration up to the tool call: await authorizePayment, then the
\* denial branch.
authorizeStep ==
    /\ pc = "authorize"
    /\ LET payment == authorizePaymentResult(plan.steps[pos]) IN
         /\ trace' = Append(trace, Event("authorize", payment.authorized))
         /\ IF ~payment.authorized
            THEN /\ stepResults' = Append(stepResults,
                        StepResult(plan.steps[pos], "payment_denied", 0))
                 /\ halted' = HaltedOnDenial
            ELSE UNCHANGED <<stepResults, halted>>
         /\ pc' = AfterAuthorize(payment)
    /\ awaited' = NotSettled
    /\ UNCHANGED <<config, execTotalSpent, plan, pos, returned, runs>>

\* executeTool: an unknown tool throws; a known tool returns or throws.
ToolOutcomes(tool) == IF tool \in ToolTypes THEN {TRUE, FALSE} ELSE {FALSE}

execTool_FailureBreaks ==
    /\ pc = "tool"
    /\ \E toolOk \in ToolOutcomes(plan.steps[pos].tool) :
         /\ trace' = Append(trace, Event("tool", toolOk))
         /\ IF toolOk
            THEN LET actualCost == COST_PER_TOOL[plan.steps[pos].tool] IN
                 /\ execTotalSpent' =
                        DoubleAdd(execTotalSpent, DoubleOf(actualCost))
                 /\ stepResults' = Append(stepResults,
                        StepResult(plan.steps[pos], "completed", actualCost))
                 /\ pc' = "confirm"
            ELSE /\ stepResults' = Append(stepResults,
                        StepResult(plan.steps[pos], "failed", 0))
                 /\ pc' = "return"
                 /\ UNCHANGED execTotalSpent
    /\ UNCHANGED <<config, plan, halted, pos, returned, runs, awaited>>

\* await executeTool, then the rest of the try block up to confirmPayment, or
\* the catch block up to refundPayment.
execTool ==
    /\ pc = "tool"
    /\ \E toolOk \in ToolOutcomes(plan.steps[pos].tool) :
         /\ trace' = Append(trace, Event("tool", toolOk))
         /\ IF toolOk
            THEN LET actualCost == COST_PER_TOOL[plan.steps[pos].tool] IN
                 /\ execTotalSpent' =
                        DoubleAdd(execTotalSpent, DoubleOf(actualCost))
                 /\ stepResults' = Append(stepResults,
                        StepResult(plan.steps[pos], "completed", actualCost))
                 /\ pc' = "confirm"
            ELSE /\ stepResults' = Append(stepResults,
                        StepResult(plan.steps[pos], "failed", 0))
                 /\ pc' = "refund"
                 /\ UNCHANGED execTotalSpent
    /\ UNCHANGED <<config, plan, halted, pos, returned, runs, awaited>>

\* executeAnthropic's context: one entry "[Step index]: output" for each
\* completed result of this.stepResults, in the list's order; an output is
\* named by the step that produced it.
anthropicContext ==
    LET done == SelectSeq(stepResults, LAMBDA r : r.status = "completed")
    IN  [k \in 1..Len(done) |->
            [index |-> done[k].index, output_of |-> done[k].step_id]]

\* What executeTool hands the step's tool beside the step: executeAnthropic
\* builds the context, executeTavily and executeBlockchainRPC take none.
toolContext(step) ==
    IF step.tool \in {"anthropic", "reasoning"} THEN anthropicContext ELSE <<>>

confirmStep_ThenRefund ==
    /\ pc = "confirm"
    /\ LET resolves == confirmPaymentResolves(plan.steps[pos].id) IN
         /\ trace' = Append(trace, Event("confirm", resolves))
         /\ IF resolves
            THEN /\ pc' = "refund"
                 /\ pos' = pos
                 /\ UNCHANGED stepResults
            ELSE /\ stepResults' = Append(stepResults,
                        StepResult(plan.steps[pos], "failed", 0))
                 /\ pc' = "refund"
                 /\ UNCHANGED pos
    /\ awaited' = NotSettled
    /\ UNCHANGED <<config, execTotalSpent, plan, halted, returned, runs>>

\* await confirmPayment, the last statement of the try block: when it resolves
\* the loop goes on to the next step; a rejection lands in the catch block,
\* which pushes a failed result and goes on to refundPayment.
confirmStep ==
    /\ pc = "confirm"
    /\ LET resolves == confirmPaymentResolves(plan.steps[pos].id) IN
         /\ trace' = Append(trace, Event("confirm", resolves))
         /\ IF resolves
            THEN /\ pc' = NextIteration(pos)
                 /\ pos' = pos + 1
                 /\ UNCHANGED stepResults
            ELSE /\ stepResults' = Append(stepResults,
                        StepResult(plan.steps[pos], "failed", 0))
                 /\ pc' = "refund"
                 /\ UNCHANGED pos
    /\ awaited' = NotSettled
    /\ UNCHANGED <<config, execTotalSpent, plan, halted, returned, runs>>

refundStep_Breaks ==
    /\ pc = "refund"
    /\ LET resolves == refundPaymentResolves(plan.steps[pos].id) IN
         /\ trace' = Append(trace, Event("refund", resolves))
         /\ IF resolves
            THEN /\ pc' = "return"
                 /\ pos' = pos + 1
            ELSE /\ pc' = "threw"
                 /\ UNCHANGED pos
    /\ awaited' = NotSettled
    /\ UNCHANGED <<config, stepResults, execTotalSpent, plan, halted,
                   returned, runs>>

\* await refundPayment, the last statement of the catch block, in no try of
\* its own: when it resolves the loop goes on to the next step; a rejection
\* leaves executeAll.
refundStep ==
    /\ pc = "refund"
    /\ LET resolves == refundPaymentResolves(plan.steps[pos].id) IN
         /\ trace' = Append(trace, Event("refund", resolves))
         /\ IF resolves
            THEN /\ pc' = NextIteration(pos)
                 /\ pos' = pos + 1
            ELSE /\ pc' = "threw"
                 /\ UNCHANGED pos
    /\ awaited' = NotSettled
    /\ UNCHANGED <<config, stepResults, execTotalSpent, plan, halted,
                   returned, runs>>

ReturnedResults_OnlyDenial ==
    IF halted THEN <<stepResults[Len(stepResults)]>> ELSE stepResults

\* results: this.stepResults
ReturnedResults == stepResults

\* return { results: this.stepResults, totalSpent: this.totalSpent, halted }
execReturn ==
    /\ pc = "return"
    /\ returned' = [results |-> ReturnedResults, totalSpent |-> execTotalSpent,
                    halted |-> halted, run |-> runs]
    /\ pc' = "idle"
    /\ UNCHANGED <<config, stepResults, execTotalSpent, plan, halted, pos,
                   trace, runs, awaited>>

\* --------------------------------------------------- getBudgetStatus
\* this.stepResults.filter((r) => r.status === "completed").length
RECURSIVE CompletedCount(_)
CompletedCount(results) ==
    IF results = <<>> THEN 0
    ELSE CompletedCount(SubSeq(results, 1, Len(results) - 1))
         + (IF results[Len(results)].status = "completed" THEN 1 ELSE 0)

getBudgetStatus_RemainingOfLocked(pl) ==
    [session_id |-> pl.session_id,
     total_locked |-> pl.total_estimated_cost,
     total_spent |-> execTotalSpent,
     remaining |-> DoubleMinus(pl.total_estimated_cost, execTotalSpent),
     steps_completed |-> CompletedCount(stepResults),
     steps_remaining |-> pl.step_count - CompletedCount(stepResults)]

getBudgetStatus(pl) ==
    [session_id |-> pl.session_id,
     total_locked |-> pl.total_estimated_cost,
     total_spent |-> execTotalSpent,
     remaining |-> DoubleMinus(DoubleOf(pl.max_budget), execTotalSpent),
     steps_completed |-> CompletedCount(stepResults),
     steps_remaining |-> pl.step_count - CompletedCount(stepResults)]

\* ------------------------------------------- the Executor on the gate
\* Math.floor(usd * 1e6): USD to the token's 6 decimals.  The product of the
\* double's 62 bits by 15625 and then by 64, in pieces of 15 bits; its part
\* from 2^62 up is the whole number of units, and the floor is one more where
\* rounding the product to 53 bits carries the fraction over to the next
\* whole number.
amountWei(usd) ==
    LET a0 == (usd.lo % Two15) * 15625
        a1 == (usd.lo \div Two15) * 15625 + a0 \div Two15
        a2 == (usd.hi % Two15) * 15625 + a1 \div Two15
        a3 == ((usd.hi \div Two15) % Two15) * 15625 + a2 \div Two15
        a4 == (usd.hi \div Two30) * 15625 + a3 \div Two15
        p0 == (a0 % Two15) * 64
        p1 == (a1 % Two15) * 64 + p0 \div Two15
        p2 == (a2 % Two15) * 64 + p1 \div Two15
        p3 == (a3 % Two15) * 64 + p2 \div Two15
        p4 == a4 * 64 + p3 \div Two15
        whole == p4 \div 4
        fractionLow == (p1 % Two15) * Two15 + (p0 % Two15)
        carries == /\ p4 % 4 = 3
                   /\ p3 % Two15 = Two15 - 1
                   /\ p2 % Two15 = Two15 - 1
                   /\ fractionLow >= Two30 - TwoTo(8 + BitLength(whole))
    IN  IF whole = 0 THEN 0 ELSE whole + (IF carries THEN 1 ELSE 0)

\* The awaited payment call settles: callContract has logged the call and
\* resolved, and the gate has heard nothing.  The continuation in executeAll
\* runs in a later turn of the event loop.
callSettles(resolves) ==
    /\ awaited = NotSettled
    /\ awaited' = Settled(resolves)
    /\ UNCHANGED <<ledgerVars, config, stepResults, execTotalSpent, plan,
                   halted, pos, pc, trace, returned, runs, otherVars>>

\* this.callContract("authorizePayment", [stepIdHash, amountWei], sessionId)
gateAuthorize ==
    /\ pc = "authorize"
    /\ callSettles(authorizePaymentResult(plan.steps[pos]).authorized)

\* await this.authorizePayment(step, plan.session_id), resumed.
gateAuthorized ==
    /\ awaited.settled
    /\ authorizeStep
    /\ UNCHANGED <<ledgerVars, otherVars>>

\* this.callContract("confirmExecution", [this.hashStepId(stepId)], sessionId)
gateConfirm ==
    /\ pc = "confirm"
    /\ callSettles(confirmPaymentResolves(plan.steps[pos].id))

\* await this.confirmPayment(step.id, plan.session_id), resumed.
gateConfirmed ==
    /\ awaited.settled
    /\ confirmStep
    /\ UNCHANGED <<ledgerVars, otherVars>>

\* this.callContract("refund", [this.hashStepId(stepId)], sessionId)
gateRefund ==
    /\ pc = "refund"
    /\ callSettles(refundPaymentResolves(plan.steps[pos].id))

\* await this.refundPayment(step.id, plan.session_id), resumed.
gateRefunded ==
    /\ awaited.settled
    /\ refundStep
    /\ UNCHANGED <<ledgerVars, otherVars>>

\* After the run the operator settles the plan's session, with the spend the
\* gate recorded or with the spend the Executor returned.
gateSettle ==
    /\ pc = "idle" /\ runs > 0
    /\ \E spent \in {sessions[plan.session_id].totalSpent,
                      amountWei(returned.totalSpent)} :
           settleBudget(operator, plan.session_id, spent)
    /\ UNCHANGED <<execVars, otherVars>>

\* Plans whose steps carry any of these estimates, whatever their tool.
EstimatedCosts == {COST_PER_TOOL["tavily"], COST_PER_TOOL["reasoning"]}

GatePlanOf(choice) ==
    [session_id |-> "s1",
     steps |-> [k \in 1..Len(choice) |-> Step(k, choice[k][1], choice[k][2])],
     step_count |-> Len(choice)]

GatePlans ==
    UNION { { GatePlanOf(choice) :
                choice \in [1..n -> PlanTools \X EstimatedCosts] } :
            n \in 0..MaxPlanLen }

\* The budgets a plan is built for, in thousandths of a USD.
PlanBudgets == {COST_PER_TOOL["reasoning"],
                COST_PER_TOOL["reasoning"] + COST_PER_TOOL["tavily"],
                MaxBudget}

\* steps.reduce((sum, s) => sum + s.estimated_cost_usd, 0)
RECURSIVE reduceCost(_)
reduceCost(steps) ==
    IF steps = <<>> THEN DoubleZero
    ELSE DoubleAdd(reduceCost(SubSeq(steps, 1, Len(steps) - 1)),
                   DoubleOf(steps[Len(steps)].estimated_cost_usd))

\* buildPlan(sessionId, query, steps, maxBudget)
buildPlan(steps, maxBudget) ==
    [session_id |-> "s1",
     steps |-> steps,
     step_count |-> Len(steps),
     total_estimated_cost |-> reduceCost(steps),
     max_budget |-> maxBudget]

\* The plan buildPlan makes of the steps in `choice` for a budget.
BudgetPlanOf(choice, maxBudget) == buildPlan(GatePlanOf(choice).steps, maxBudget)

BudgetPlans ==
    UNION { { BudgetPlanOf(choice, b) :
                choice \in [1..n -> PlanTools \X EstimatedCosts],
                b \in PlanBudgets } :
            n \in 0..MaxPlanLen }

\* The budgets a payer locks for a run, in token units.
Budgets == {amountWei(DoubleOf(COST_PER_TOOL["reasoning"])),
            amountWei(DoubleOf(COST_PER_TOOL["reasoning"]
                               + COST_PER_TOOL["tavily"])),
            amountWei(DoubleOf(MaxBudget))}

\* ============================================================ Synthesizer
\* The provenance strings the step results of the model carry: two URLs of one
\* host, a note, a string that starts with "http" and is no URL, and a locator
\* of another scheme.
SourcePool == {"https://a.com/x", "https://a.com/y", "internal-note",
               "http-archive", "ftp://b.org/z"}
\* The provenance strings of the results pushed while a synthesize call is
\* under way.
PushedSources == {"https://a.com/x", "internal-note", "http-archive"}

\* ---- new URL(source).hostname
\* The parser of the runtime (the URL Standard), without a base, for strings of
\* printable ASCII characters, tabs and line breaks.  Outside the model: an
\* input that itself holds the grave accent, which no string literal of the
\* module can spell; a percent-escape in a domain that decodes to a byte from
\* 0x80 on, and labels that start with "xn--", both of which the runtime passes
\* through IDNA.
UpperCase == "ABCDEFGHIJKLMNOPQRSTUVWXYZ"
LowerCase == "abcdefghijklmnopqrstuvwxyz"
HexDigitString == "0123456789abcdef"
\* The characters of the codes 32 to 95 and 97 to 126, in order.
AsciiTo95 == " !\"#$%&'()*+,-./0123456789:;<=>?@ABCDEFGHIJKLMNOPQRSTUVWXYZ[\\]^_"
AsciiFrom97 == "abcdefghijklmnopqrstuvwxyz{|}~"
\* The grave accent (code 96), which a host holds where the escape %60 is
\* decoded: it is written as the form feed, which no input of the model holds
\* and no domain may hold.
GraveAccent == "\f"

Letters == {"a", "b", "c", "d", "e", "f", "g", "h", "i", "j", "k", "l", "m",
            "n", "o", "p", "q", "r", "s", "t", "u", "v", "w", "x", "y", "z"}
Digits == {"0", "1", "2", "3", "4", "5", "6", "7", "8", "9"}
SchemeChars == Letters \cup Digits \cup {"+", "-", "."}
SpecialSchemes == {"http", "https", "ftp", "ws", "wss", "file"}
\* The forbidden host code points, and the forbidden domain code points that
\* a string of the model can hold.
ForbiddenHostChars == {"\t", "\n", "\r", " ", "#", "/", ":", "<", ">", "?",
                       "@", "[", "\\", "]", "^", "|"}
ForbiddenDomainChars == ForbiddenHostChars \cup {"%"}
Whitespace == {" ", "\t", "\n", "\r"}

At(str, i) == SubSeq(str, i, i)

\* The element of a set of one element; { e(x) : x \in {v} } is e of the value
\* of v.
TheOne(S) == CHOOSE x \in S : TRUE
Chars(str) == {SubSeq(str, i, i) : i \in 1..Len(str)}

\* The first position at or after `from` that holds one of `cs`, 0 if none.
RECURSIVE IndexOf(_, _, _)
IndexOf(str, cs, from) ==
    IF from > Len(str) THEN 0
    ELSE IF SubSeq(str, from, from) \in cs THEN from
    ELSE IndexOf(str, cs, from + 1)

\* The last position that holds one of `cs`, 0 if none.
RECURSIVE LastIndexOf(_, _, _)
LastIndexOf(str, cs, upTo) ==
    IF upTo < 1 THEN 0
    ELSE IF SubSeq(str, upTo, upTo) \in cs THEN upTo
    ELSE LastIndexOf(str, cs, upTo - 1)

toLowerChar(c) ==
    LET p == IndexOf(UpperCase, {c}, 1) IN
    IF p = 0 THEN c ELSE At(LowerCase, p)

RECURSIVE toLowerCase(_)
toLowerCase(str) ==
    IF Len(str) = 0 THEN ""
    ELSE toLowerChar(At(str, 1)) \o toLowerCase(SubSeq(str, 2, Len(str)))

\* The value of a hexadecimal digit, -1 for any other character.
HexValue(c) == IndexOf(HexDigitString, {toLowerChar(c)}, 1) - 1

\* The pieces of `str` between the occurrences of `sep`.
RECURSIVE Split(_, _)
Split(str, sep) ==
    LET p == IndexOf(str, {sep}, 1) IN
    IF p = 0 THEN <<str>>
    ELSE <<SubSeq(str, 1, p - 1)>> \o Split(SubSeq(str, p + 1, Len(str)), sep)

\* Leading and trailing white space is stripped, then every tab and line break
\* is removed.
RECURSIVE StripLeading(_)
StripLeading(str) ==
    IF Len(str) > 0 /\ At(str, 1) \in Whitespace
    THEN StripLeading(SubSeq(str, 2, Len(str)))
    ELSE str

RECURSIVE StripTrailing(_)
StripTrailing(str) ==
    IF Len(str) > 0 /\ At(str, Len(str)) \in Whitespace
    THEN StripTrailing(SubSeq(str, 1, Len(str) - 1))
    ELSE str

RECURSIVE RemoveTabsAndNewlines(_)
RemoveTabsAndNewlines(str) ==
    IF Len(str) = 0 THEN ""
    ELSE (IF At(str, 1) \in {"\t", "\n", "\r"} THEN "" ELSE At(str, 1))
         \o RemoveTabsAndNewlines(SubSeq(str, 2, Len(str)))

\* The first position at or after `from` that holds neither a slash nor a
\* backslash.
RECURSIVE SkipSlashes(_, _)
SkipSlashes(str, from) ==
    IF from > Len(str) THEN from
    ELSE IF At(str, from) \in {"/", "\\"} THEN SkipSlashes(str, from + 1)
    ELSE from

InvalidURL == [ok |-> FALSE, hostname |-> ""]
ValidURL(host) == [ok |-> TRUE, hostname |-> host]

\* Percent-decoding of a domain.  A control byte (below 0x20, or 0x7f) is
\* written as a line feed, which like it no domain may hold; the byte 0x60 is
\* the grave accent.
RECURSIVE PercentDecode(_)
PercentDecode(str) ==
    IF Len(str) = 0 THEN ""
    ELSE IF /\ At(str, 1) = "%" /\ Len(str) >= 3
            /\ HexValue(At(str, 2)) >= 0 /\ HexValue(At(str, 3)) >= 0
    THEN LET code == 16 * HexValue(At(str, 2)) + HexValue(At(str, 3)) IN
         (IF code \in 32..95 THEN At(AsciiTo95, code - 31)
          ELSE IF code = 96 THEN GraveAccent
          ELSE IF code \in 97..126 THEN At(AsciiFrom97, code - 96)
          ELSE "\n")
         \o PercentDecode(SubSeq(str, 4, Len(str)))
    ELSE At(str, 1) \o PercentDecode(SubSeq(str, 2, Len(str)))

\* ---- IPv4
\* A number of the IPv4 parser: its low four bytes, and whether it exceeds
\* them.
NoNumber == [ok |-> FALSE, bytes |-> <<0, 0, 0, 0>>, over |-> FALSE]

\* No number of four bytes has more digits after its leading zeros, in any of
\* the three radixes.
MaxIPv4Digits == 11

\* n * radix + d in four bytes.
TimesPlus(n, radix, d) ==
    LET b0 == n.bytes[4] * radix + d
        b1 == n.bytes[3] * radix + b0 \div 256
        b2 == n.bytes[2] * radix + b1 \div 256
        b3 == n.bytes[1] * radix + b2 \div 256
    IN  [ok |-> TRUE,
         bytes |-> <<b3 % 256, b2 % 256, b1 % 256, b0 % 256>>,
         over |-> n.over \/ b3 >= 256]

\* The number written by `digits` in `radix`, after `n`.
RECURSIVE ReadDigits(_, _, _)
ReadDigits(digits, radix, n) ==
    IF Len(digits) = 0 THEN n
    ELSE TheOne({ ReadDigits(SubSeq(digits, 2, Len(digits)), radix, next) :
                  next \in {TimesPlus(n, radix, HexValue(At(digits, 1)))} })

\* The digits of `part` after its radix prefix, and the radix.
RadixAndDigits(part) ==
    IF Len(part) >= 2 /\ SubSeq(part, 1, 2) \in {"0x", "0X"}
    THEN [radix |-> 16, digits |-> SubSeq(part, 3, Len(part))]
    ELSE IF Len(part) >= 2 /\ SubSeq(part, 1, 1) = "0"
    THEN [radix |-> 8, digits |-> SubSeq(part, 2, Len(part))]
    ELSE [radix |-> 10, digits |-> part]

\* `digits` from its first digit that is not zero.
WithoutLeadingZeros(digits) ==
    TheOne({ IF first = 0 THEN "" ELSE SubSeq(digits, first, Len(digits)) :
             first \in {IndexOf(digits, Chars(HexDigitString) \ {"0"}, 1)} })

\* The IPv4 number parser: hexadecimal after "0x", octal after "0", decimal
\* otherwise; not ok where a character is no digit of the radix.
ParseIPv4Number(part) ==
    IF Len(part) = 0 THEN NoNumber
    ELSE TheOne({
        IF \E i \in 1..Len(rd.digits) :
               HexValue(At(rd.digits, i)) \notin 0..(rd.radix - 1)
        THEN NoNumber
        ELSE TheOne({
            IF Len(significant) > MaxIPv4Digits
            THEN [ok |-> TRUE, bytes |-> <<0, 0, 0, 0>>, over |-> TRUE]
            ELSE ReadDigits(significant, rd.radix,
                            [ok |-> TRUE, bytes |-> <<0, 0, 0, 0>>,
                             over |-> FALSE]) :
            significant \in {WithoutLeadingZeros(rd.digits)} }) :
        rd \in {RadixAndDigits(part)} })

\* The parts of a domain between its dots, without an empty last part.
IPv4Parts(domain) ==
    TheOne({ IF Len(parts) > 1 /\ Len(parts[Len(parts)]) = 0
             THEN SubSeq(parts, 1, Len(parts) - 1)
             ELSE parts :
             parts \in {Split(domain, ".")} })

EndsInANumber(domain) ==
    \E parts \in {IPv4Parts(domain)} :
        \E last \in {parts[Len(parts)]} :
            /\ Len(last) > 0
            /\ \/ Chars(last) \subseteq Digits
               \/ ParseIPv4Number(last).ok

\* The address of the numbers: one byte of each but the last, the other bytes
\* of the last.
IPv4OfNumbers(numbers) ==
    LET count == Len(numbers)
        last == numbers[count]
        byte(i) == IF i < count THEN numbers[i].bytes[4] ELSE last.bytes[i]
    IN  IF \/ count > 4
           \/ \E i \in 1..count : ~numbers[i].ok \/ numbers[i].over
           \/ \E i \in 1..(count - 1) :
                  numbers[i].bytes[1] + numbers[i].bytes[2]
                      + numbers[i].bytes[3] > 0
           \/ \E i \in 1..(count - 1) : last.bytes[i] > 0
        THEN InvalidURL
        ELSE ValidURL(ToString(byte(1)) \o "." \o ToString(byte(2)) \o "."
                      \o ToString(byte(3)) \o "." \o ToString(byte(4)))

IPv4Parse(domain) ==
    TheOne({ IPv4OfNumbers(numbers) :
             numbers \in { [i \in 1..Len(parts) |-> ParseIPv4Number(parts[i])] :
                            parts \in {IPv4Parts(domain)} } })

\* ---- IPv6
NoAddress6 == [ok |-> FALSE, address |-> <<>>, pieceIndex |-> 0, compress |-> -1]

\* How many of the characters from `from` on are hexadecimal digits, four at
\* most.
RECURSIVE HexRun(_, _, _)
HexRun(str, from, most) ==
    IF most = 0 \/ from > Len(str) \/ HexValue(At(str, from)) < 0 THEN 0
    ELSE 1 + HexRun(str, from + 1, most - 1)

\* The number that short `digits` write in the radix.
RECURSIVE NumberOf(_, _)
NumberOf(digits, radix) ==
    IF Len(digits) = 0 THEN 0
    ELSE radix * NumberOf(SubSeq(digits, 1, Len(digits) - 1), radix)
         + HexValue(At(digits, Len(digits)))

\* The four decimal numbers that end an IPv6 address.
IPv4PieceOk(part) ==
    /\ Len(part) \in 1..3
    /\ Chars(part) \subseteq Digits
    /\ Len(part) > 1 => At(part, 1) # "0"
    /\ NumberOf(part, 10) <= 255

IPv4InIPv6(str) ==
    TheOne({ IF Len(parts) = 4 /\ \A i \in 1..4 : IPv4PieceOk(parts[i])
             THEN TheOne({ [ok |-> TRUE,
                            high |-> 256 * n[1] + n[2],
                            low |-> 256 * n[3] + n[4]] :
                           n \in {[i \in 1..4 |-> NumberOf(parts[i], 10)]} })
             ELSE [ok |-> FALSE, high |-> 0, low |-> 0] :
             parts \in {Split(str, ".")} })

\* The address with the piece after pieceIndex set.
WithPiece(address, pieceIndex, value, compress) ==
    [ok |-> TRUE,
     address |-> [address EXCEPT ![pieceIndex + 1] = value],
     pieceIndex |-> pieceIndex + 1,
     compress |-> compress]

\* The address with the two pieces after pieceIndex set from the four decimal
\* numbers.
WithIPv4(address, pieceIndex, v4, compress) ==
    IF pieceIndex > 6 \/ ~v4.ok THEN NoAddress6
    ELSE [ok |-> TRUE,
          address |-> [address EXCEPT ![pieceIndex + 1] = v4.high,
                                      ![pieceIndex + 2] = v4.low],
          pieceIndex |-> pieceIndex + 2,
          compress |-> compress]

RECURSIVE IPv6Pieces(_, _, _, _, _)
\* The piece of `length` hexadecimal digits at p, and the pieces after it.
IPv6Piece(str, p, length, address, pieceIndex, compress) ==
    TheOne({
        IF c = "."
        THEN IF length = 0 THEN NoAddress6
             ELSE WithIPv4(address, pieceIndex,
                           IPv4InIPv6(SubSeq(str, p, Len(str))), compress)
        ELSE TheOne({
            IF c = ":"
            THEN IF p + length + 1 > Len(str) THEN NoAddress6
                 ELSE IPv6Pieces(str, p + length + 1, next.address,
                                 next.pieceIndex, compress)
            ELSE IF c # "" THEN NoAddress6
            ELSE next :
            next \in {WithPiece(address, pieceIndex,
                                NumberOf(SubSeq(str, p, p + length - 1), 16),
                                compress)} }) :
        c \in {IF p + length > Len(str) THEN "" ELSE At(str, p + length)} })

IPv6Pieces(str, p, address, pieceIndex, compress) ==
    IF p > Len(str)
    THEN [ok |-> TRUE, address |-> address, pieceIndex |-> pieceIndex,
          compress |-> compress]
    ELSE IF pieceIndex = 8 THEN NoAddress6
    ELSE IF At(str, p) = ":"
    THEN IF compress # -1 THEN NoAddress6
         ELSE IPv6Pieces(str, p + 1, address, pieceIndex + 1, pieceIndex + 1)
    ELSE TheOne({ IPv6Piece(str, p, length, address, pieceIndex, compress) :
                  length \in {HexRun(str, p, 4)} })

\* The pieces of `read` after "::" moved to the end.
Uncompressed(read) ==
    IF ~read.ok THEN NoAddress6
    ELSE IF read.compress = -1
    THEN IF read.pieceIndex = 8 THEN read ELSE NoAddress6
    ELSE TheOne({
        [read EXCEPT !.address =
            [i \in 1..8 |->
                IF i <= read.compress THEN read.address[i]
                ELSE IF i > 8 - swaps
                THEN read.address[i - (8 - swaps) + read.compress]
                ELSE 0]] :
        swaps \in {read.pieceIndex - read.compress} })

\* The eight pieces of an IPv6 address.
IPv6Parse(str) ==
    IF Len(str) > 0 /\ At(str, 1) = ":"
    THEN IF Len(str) < 2 \/ At(str, 2) # ":" THEN NoAddress6
         ELSE TheOne({ Uncompressed(read) :
                       read \in {IPv6Pieces(str, 3, [i \in 1..8 |-> 0], 1, 1)} })
    ELSE TheOne({ Uncompressed(read) :
                  read \in {IPv6Pieces(str, 1, [i \in 1..8 |-> 0], 0, -1)} })

RECURSIVE HexString(_)
HexString(n) ==
    IF n < 16 THEN At(HexDigitString, n + 1)
    ELSE HexString(n \div 16) \o At(HexDigitString, (n % 16) + 1)

\* The length of the run of zero pieces that starts at piece i.
RECURSIVE ZeroRun(_, _)
ZeroRun(address, i) ==
    IF i > 8 \/ address[i] # 0 THEN 0 ELSE 1 + ZeroRun(address, i + 1)

RECURSIVE JoinPieces(_, _, _)
JoinPieces(address, from, to) ==
    IF from > to THEN ""
    ELSE HexString(address[from])
         \o (IF from < to THEN ":" ELSE "")
         \o JoinPieces(address, from + 1, to)

\* Where the first of the longest runs starts.
FirstLongest(run) ==
    CHOOSE i \in 1..8 :
        /\ \A j \in 1..8 : run[j] <= run[i]
        /\ \A j \in 1..(i - 1) : run[j] < run[i]

\* The pieces, those of the run written as "::" if they are two or more.
Compressed(address, start, length) ==
    IF length < 2 THEN JoinPieces(address, 1, 8)
    ELSE JoinPieces(address, 1, start - 1) \o "::"
         \o JoinPieces(address, start + length, 8)

\* The address with its first longest run of two or more zero pieces
\* written as "::".
IPv6Serialize(address) ==
    TheOne({ TheOne({ Compressed(address, start, run[start]) :
                      start \in {FirstLongest(run)} }) :
             run \in {[i \in 1..8 |-> ZeroRun(address, i)]} })

\* ---- hosts
\* The host parser: `buffer` is the host as written, isOpaque for a scheme
\* that is not special.
HostParse(buffer, isOpaque) ==
    IF Len(buffer) > 0 /\ At(buffer, 1) = "["
    THEN IF At(buffer, Len(buffer)) # "]" THEN InvalidURL
         ELSE TheOne({ IF ~inner.ok THEN InvalidURL
                       ELSE ValidURL("[" \o IPv6Serialize(inner.address) \o "]") :
                       inner \in {IPv6Parse(SubSeq(buffer, 2, Len(buffer) - 1))} })
    ELSE IF isOpaque
    THEN IF Chars(buffer) \cap ForbiddenHostChars # {} THEN InvalidURL
         ELSE ValidURL(buffer)
    ELSE TheOne({ IF \/ Len(asciiDomain) = 0
                     \/ Chars(asciiDomain) \cap ForbiddenDomainChars # {}
                  THEN InvalidURL
                  ELSE IF EndsInANumber(asciiDomain) THEN IPv4Parse(asciiDomain)
                  ELSE ValidURL(asciiDomain) :
                  asciiDomain \in {toLowerCase(PercentDecode(buffer))} })

\* The first colon of `str` at or after `from` that is outside square
\* brackets, 0 if none.
RECURSIVE PortColon(_, _, _)
PortColon(str, from, insideBrackets) ==
    IF from > Len(str) THEN 0
    ELSE IF At(str, from) = ":" /\ ~insideBrackets THEN from
    ELSE PortColon(str, from + 1,
                   IF At(str, from) = "[" THEN TRUE
                   ELSE IF At(str, from) = "]" THEN FALSE
                   ELSE insideBrackets)

\* Whether `port` is empty or a decimal number up to 65535.
ValidPort(port) ==
    /\ Chars(port) \subseteq Digits
    /\ LET first == IndexOf(port, Digits \ {"0"}, 1)
           digits == IF first = 0 THEN "" ELSE SubSeq(port, first, Len(port))
       IN  /\ Len(digits) <= 5
           /\ NumberOf(digits, 10) <= 65535

\* The part of `str` from `start` up to the first of `stops`.
UpTo(str, start, stops) ==
    TheOne({ SubSeq(str, start, IF stop = 0 THEN Len(str) ELSE stop - 1) :
             stop \in {IndexOf(str, stops, start)} })

\* The host and the port of an authority: the credentials end at its last "@".
HostAndPort(authority) ==
    TheOne({ [sawAt |-> at # 0,
              hostport |-> SubSeq(authority, at + 1, Len(authority))] :
             at \in {LastIndexOf(authority, {"@"}, Len(authority))} })

\* The host of `hostport`, whose port starts after position `colon`.
HostOf(hostport, colon, special) ==
    TheOne({ IF \/ Len(buffer) = 0 /\ (special \/ colon # 0)
                \/ colon # 0
                   /\ ~ValidPort(SubSeq(hostport, colon + 1, Len(hostport)))
             THEN InvalidURL
             ELSE HostParse(buffer, ~special) :
             buffer \in {IF colon = 0 THEN hostport
                         ELSE SubSeq(hostport, 1, colon - 1)} })

\* The authority that starts at `start`: up to the path, query or fragment,
\* the credentials and the port cut off.
HostAt(str, start, special) ==
    TheOne({ IF hp.sawAt /\ Len(hp.hostport) = 0 THEN InvalidURL
             ELSE TheOne({ HostOf(hp.hostport, colon, special) :
                           colon \in {PortColon(hp.hostport, 1, FALSE)} }) :
             hp \in { HostAndPort(authority) :
                      authority \in {UpTo(str, start,
                                          {"/", "?", "#"}
                                          \cup (IF special THEN {"\\"}
                                                ELSE {}))} } })

\* A Windows drive letter: a letter and a colon or a bar.
IsWindowsDriveLetter(buffer) ==
    /\ Len(buffer) = 2
    /\ toLowerChar(At(buffer, 1)) \in Letters
    /\ At(buffer, 2) \in {":", "|"}

\* The host of a "file" URL whose scheme ends at `colon`.
FileHost(str, colon) ==
    IF ~(/\ Len(str) >= colon + 2
         /\ At(str, colon + 1) \in {"/", "\\"}
         /\ At(str, colon + 2) \in {"/", "\\"})
    THEN ValidURL("")
    ELSE TheOne({
        IF IsWindowsDriveLetter(buffer) \/ Len(buffer) = 0
        THEN ValidURL("")
        ELSE TheOne({ IF host.ok /\ host.hostname = "localhost"
                      THEN ValidURL("")
                      ELSE host :
                      host \in {HostParse(buffer, FALSE)} }) :
        buffer \in {UpTo(str, colon + 3, {"/", "\\", "?", "#"})} })

\* The host of `input`, whose scheme ends before position `colon`.
HostAfterScheme(input, colon, scheme) ==
    IF \/ toLowerChar(At(input, 1)) \notin Letters
       \/ ~(Chars(scheme) \subseteq SchemeChars)
    THEN InvalidURL
    ELSE IF scheme = "file" THEN FileHost(input, colon)
    ELSE IF scheme \in SpecialSchemes
    THEN TheOne({ HostAt(input, start, TRUE) :
                  start \in {SkipSlashes(input, colon + 1)} })
    ELSE IF /\ Len(input) >= colon + 2
            /\ SubSeq(input, colon + 1, colon + 2) = "//"
    THEN HostAt(input, colon + 3, FALSE)
    ELSE ValidURL("")

\* The URL parser run on `source`, without a base.
ParseURL(source) ==
    TheOne({ TheOne({ IF colon < 2 THEN InvalidURL
                      ELSE TheOne({ HostAfterScheme(input, colon, scheme) :
                                    scheme \in {toLowerCase(
                                                  SubSeq(input, 1, colon - 1))} }) :
                      colon \in {IndexOf(input, {":"}, 1)} }) :
             input \in {RemoveTabsAndNewlines(
                           StripTrailing(StripLeading(source)))} })

\* The parse of each provenance string of the model, worked out once.
ParsedSources == [source \in SourcePool \cup PushedSources |-> ParseURL(source)]

\* new URL(source).hostname, without a base: ok is FALSE where the constructor
\* throws TypeError.
URL(source) ==
    IF source \in DOMAIN ParsedSources THEN ParsedSources[source]
    ELSE ParseURL(source)

\* source.startsWith("http")
startsWithHttp(source) == Len(source) >= 4 /\ SubSeq(source, 1, 4) = "http"

\* stepResults.filter((r) => r.status === "completed")
completedSteps(results) == SelectSeq(results, LAMBDA r : r.status = "completed")

\* completedSteps.flatMap((r) => r.sources)
RECURSIVE flatMapSources(_)
flatMapSources(results) ==
    IF results = <<>> THEN <<>>
    ELSE Head(results).sources \o flatMapSources(Tail(results))

allSources(results) == flatMapSources(completedSteps(results))

RECURSIVE unique_KeepLast(_)
unique_KeepLast(sources) ==
    IF sources = <<>> THEN <<>>
    ELSE IF \E i \in 2..Len(sources) : sources[i] = Head(sources)
    THEN unique_KeepLast(Tail(sources))
    ELSE <<Head(sources)>> \o unique_KeepLast(Tail(sources))

\* [...new Set(sources)]: a Set keeps its values in insertion order, each once.
RECURSIVE unique(_)
unique(sources) ==
    IF sources = <<>> THEN <<>>
    ELSE LET front == unique(SubSeq(sources, 1, Len(sources) - 1))
             last == sources[Len(sources)]
         IN  IF \E i \in 1..Len(front) : front[i] = last
             THEN front
             ELSE Append(front, last)

\* The body of the map in deduplicateSources; accessed_at, the clock's reading,
\* is left out.
SourceReference(source) ==
    LET isUrl == startsWithHttp(source)
    IN  [url |-> IF isUrl THEN source ELSE "",
         title |-> IF isUrl THEN URL(source).hostname ELSE source,
         relevance |-> "primary"]

\* deduplicateSources(sources): throws where new URL throws for one of them.
deduplicateSources(sources) ==
    LET uniq == unique(sources)
    IN  IF \E i \in 1..Len(uniq) :
               startsWithHttp(uniq[i]) /\ ~URL(uniq[i]).ok
        THEN [ok |-> FALSE, refs |-> <<>>]
        ELSE [ok |-> TRUE,
              refs |-> [i \in 1..Len(uniq) |-> SourceReference(uniq[i])]]

NoResponse == [state |-> "none"]
Rejected(error) == [state |-> "rejected", error |-> error]

\* synthesize suspended at `await this.anthropic.messages.create`: the locals
\* it filled from stepResults before the await.
Pending(results) ==
    [state |-> "pending",
     completedSteps |-> completedSteps(results),
     allSources |-> allSources(results)]

\* The AgentResponse synthesize returns; the fields that hold the model's
\* text (answer, findings, notes) and the clock's reading are left out.
\* steps_executed and sources come from the locals filled before the await,
\* steps_total and actions from the array as it is after it; actions is the
\* array itself.
AgentResponse(args, locals, sourceRefs) ==
    [state |-> "resolved",
     status |-> IF args.wasHalted THEN "halted" ELSE "completed",
     session_id |-> args.sessionId,
     actions |-> args.stepResults,
     results |-> [sources |-> sourceRefs,
                  total_cost_usd |-> args.totalSpent,
                  steps_executed |-> Len(locals.completedSteps),
                  steps_total |-> Len(args.stepResults),
                  was_halted |-> args.wasHalted],
     sources |-> locals.allSources]

\* What the awaited messages.create call settles with, as far as the rest of
\* synthesize tells its outcomes apart: it rejects; it resolves with an empty
\* content array; with a first block that is no text block, or a text that is
\* no JSON (parseJSON falls back to its own object); with the JSON text null;
\* with an object whose key_findings is a number, or a list that holds null;
\* or with an object of the schema.
Replies == {"rejects", "content: []", "no text block", "no JSON", "null",
            "key_findings: 5", "key_findings: [null]", "object"}

\* response.content[0].type throws on an empty content array (line 90).
ContentThrows(reply) == reply = "content: []"

\* synthesis.answer of null, (synthesis.key_findings || []).map of a number,
\* and f.claim of a null finding throw (lines 99-103).
SynthesisThrows(reply) ==
    reply \in {"null", "key_findings: 5", "key_findings: [null]"}

\* synthesize(query, stepResults, totalSpent, wasHalted, sessionId), up to its
\* await: completedSteps and allSources are read off the array.
synthesize ==
    /\ response = NoResponse
    /\ response' = Pending(synthArgs.stepResults)
    /\ UNCHANGED <<synthArgs, pushed>>

\* The awaited messages.create call settles and synthesize runs to its end:
\* the text is taken and parsed, the source references are built from the
\* sources read before the await, and the report is built around the array as
\* it is now.
synthesizeResumed ==
    /\ response.state = "pending"
    /\ LET refs == deduplicateSources(response.allSources)
       IN  \E reply \in Replies :
               response' =
                   IF reply = "rejects" THEN Rejected("messages.create")
                   ELSE IF ContentThrows(reply) THEN Rejected("TypeError")
                   ELSE IF ~refs.ok THEN Rejected("Invalid URL")
                   ELSE IF SynthesisThrows(reply) THEN Rejected("TypeError")
                   ELSE AgentResponse(synthArgs, response, refs.refs)
    /\ UNCHANGED <<synthArgs, pushed>>

\* A result of a later executeAll on the Executor whose array the call was
\* given: its steps are numbered from 0 again.
PushedResult(k, status, source) ==
    [step_id |-> PlanStepIds[k], index |-> k - 1, status |-> status,
     tool |-> "tavily",
     actual_cost_usd |-> IF status = "completed"
                         THEN COST_PER_TOOL["tavily"] ELSE 0,
     sources |-> IF status = "completed" THEN <<source>> ELSE <<>>]

PushedResults(k) ==
    {PushedResult(k, "completed", source) : source \in PushedSources}
    \cup {PushedResult(k, status, "") : status \in {"failed", "payment_denied"}}

\* this.stepResults.push(...) by the owner of the array, while synthesize awaits
\* or after it has returned the report whose actions is that array.
pushResult(result) ==
    /\ response.state \in {"pending", "resolved"}
    /\ pushed < MaxPushes
    /\ pushed' = pushed + 1
    /\ synthArgs' = [synthArgs EXCEPT !.stepResults = Append(@, result)]
    /\ response' = IF response.state = "resolved"
                   THEN [response EXCEPT !.actions = Append(@, result)]
                   ELSE response

\* No synthesize call is made.
NoArgs == [stepResults |-> <<>>, totalSpent |-> DoubleZero, wasHalted |-> FALSE,
           sessionId |-> NoStep]
SynthesizerIdle == synthArgs = NoArgs /\ response = NoResponse /\ pushed = 0

\* ---------------------------------------------- inputs of synthesize
SeqsUpTo(S, n) == UNION {[1..k -> S] : k \in 0..n}

StepStatuses == {"completed", "failed", "payment_denied"}

\* Every m-th of `sources`, from the i-th on.
RECURSIVE Deal(_, _, _)
Deal(sources, m, i) ==
    IF i > Len(sources) THEN <<>>
    ELSE <<sources[i]>> \o Deal(sources, m, i + m)

\* Step results with the statuses `sts`, in plan order, the completed ones
\* sharing out `sources` in turn; the others carry no source and no cost, as
\* the Executor builds them.
ResultsOf(sts, sources) ==
    LET rank(k) == Cardinality({j \in 1..k : sts[j] = "completed"})
        m == rank(Len(sts))
    IN  [k \in 1..Len(sts) |->
            [step_id |-> PlanStepIds[k], index |-> k - 1, status |-> sts[k],
             tool |-> "tavily",
             actual_cost_usd |-> IF sts[k] = "completed"
                                 THEN COST_PER_TOOL["tavily"] ELSE 0,
             sources |-> IF sts[k] = "completed"
                         THEN Deal(sources, m, rank(k)) ELSE <<>>]]

\* What an Executor that produced `results` holds in totalSpent: the cost of
\* each, added in turn.
RECURSIVE reduceActualCost(_)
reduceActualCost(results) ==
    IF results = <<>> THEN DoubleZero
    ELSE DoubleAdd(reduceActualCost(SubSeq(results, 1, Len(results) - 1)),
                   DoubleOf(results[Len(results)].actual_cost_usd))

SynthInputs ==
    { [stepResults |-> ResultsOf(sts, sources),
       totalSpent |-> reduceActualCost(ResultsOf(sts, sources)),
       wasHalted |-> h,
       sessionId |-> "s1"] :
      sts \in SeqsUpTo(StepStatuses, MaxPlanLen),
      sources \in SeqsUpTo(SourcePool, MaxSources),
      h \in BOOLEAN }

\* ============================================================ Planner
\* The tool names the planning model answers with, one of them not a ToolType.
RawTools == {"tavily", "reasoning", "web_search"}

\* The maxBudget arguments, in thousandths of a USD.
MaxBudgets == {0, 10, 50, 60, 90, 100}

\* validateTool(tool)
validateTool(tool) == IF tool \in ToolTypes THEN tool ELSE "anthropic"

\* rawPlan.steps.map(...): index is the array position, the id is made from
\* the index and a fresh uuid, the cost comes from the table.
TypedSteps(rawTools) ==
    [k \in 1..Len(rawTools) |->
        [id |-> PlanStepIds[k], index |-> k - 1,
         tool |-> validateTool(rawTools[k]),
         estimated_cost_usd |-> COST_PER_TOOL[validateTool(rawTools[k])]]]

\* The trimming loop: keep steps while the budget left covers the next one.
RECURSIVE trimSteps(_, _)
trimSteps(steps, budget) ==
    IF steps = <<>> THEN <<>>
    ELSE IF DoubleGe(budget, DoubleOf(Head(steps).estimated_cost_usd))
    THEN <<Head(steps)>> \o
         trimSteps(Tail(steps),
             DoubleSub(budget, DoubleOf(Head(steps).estimated_cost_usd)))
    ELSE <<>>

NoPlanned == [session_id |-> NoStep]
NoPlanArgs == [rawTools |-> <<>>, maxBudget |-> 0]
PlannerIdle == planArgs = NoPlanArgs /\ planned = NoPlanned

\* generatePlan(query, maxBudget), after the planning model answered with a
\* step list.
generatePlan ==
    /\ planned = NoPlanned
    /\ LET steps == TypedSteps(planArgs.rawTools)
           maxBudget == DoubleOf(planArgs.maxBudget)
       IN  planned' =
               IF DoubleGt(reduceCost(steps), maxBudget)
               THEN buildPlan(trimSteps(steps, maxBudget), planArgs.maxBudget)
               ELSE buildPlan(steps, planArgs.maxBudget)
    /\ UNCHANGED planArgs

\* ------------------------------------------------------- specifications
LedgerInit ==
    /\ sessions = [s \in SessionIds |-> EmptySession]
    /\ stepPayments = [s \in SessionIds |-> [t \in StepIds |-> EmptyStep]]
    /\ balanceOf = [a \in Addresses |-> IF a = Payer THEN InitialFunds ELSE 0]
    /\ allowance = [a \in Addresses |-> [b \in Addresses |->
                        IF a = Payer /\ b = Gate THEN InitialFunds ELSE 0]]
    /\ lastCall = NoCall

\* new Executor(config)
ExecutorInit(configs) ==
    /\ onchain \in configs
    /\ stepResults = <<>>
    /\ execTotalSpent = DoubleZero
    /\ plan = NoPlan
    /\ halted = FALSE
    /\ pos = 1
    /\ pc = "idle"
    /\ trace = <<>>
    /\ returned = NoReturn
    /\ runs = 0
    /\ awaited = NotSettled

\* The direct calls to the token the model makes, beside those the gate makes
\* in lockBudget and settleBudget: a stranger mints a token to the gate, the
\* payer withdraws the gate's allowance, the payer sends the gate tokens that
\* no session locks, and a stranger tries to draw on the payer's balance.
Donation == MaxAmount

\* The gate and its token under arbitrary calls, the gate on one session.
Init == LedgerInit /\ ExecutorInit({TRUE}) /\ SynthesizerIdle /\ PlannerIdle

Next ==
    \/ \E caller \in Callers, sid \in {"s1"} :
        \/ \E amt \in Amounts, sc \in StepCounts :
               lockBudget(caller, sid, amt, sc) /\ UNCHANGED <<execVars, otherVars>>
        \/ \E step \in StepIds, amt \in Amounts :
               authorizePayment(caller, sid, step, amt) /\ UNCHANGED <<execVars, otherVars>>
        \/ \E step \in StepIds :
               confirmExecution(caller, sid, step) /\ UNCHANGED <<execVars, otherVars>>
        \/ \E step \in StepIds :
               refund(caller, sid, step) /\ UNCHANGED <<execVars, otherVars>>
        \/ \E amt \in Amounts :
               settleBudget(caller, sid, amt) /\ UNCHANGED <<execVars, otherVars>>
    \/ mint(Stranger, Gate, 1) /\ UNCHANGED <<execVars, otherVars>>
    \/ approve(Payer, Gate, 0) /\ UNCHANGED <<execVars, otherVars>>
    \/ transfer(Payer, Gate, Donation) /\ UNCHANGED <<execVars, otherVars>>
    \/ transferFrom(Payer, Gate, Payer, 1) /\ UNCHANGED <<execVars, otherVars>>

Spec == Init /\ [][Next]_vars

\* One Executor running plans, with or without a contract address.
ExecInit ==
    /\ LedgerInit
    /\ ExecutorInit(BOOLEAN)
    /\ SynthesizerIdle
    /\ PlannerIdle

ExecNext ==
    \/ \E pl \in Plans : executeAllStart(pl) /\ UNCHANGED <<ledgerVars, otherVars>>
    \/ authorizeStep /\ UNCHANGED <<ledgerVars, otherVars>>
    \/ execTool /\ UNCHANGED <<ledgerVars, otherVars>>
    \/ confirmStep /\ UNCHANGED <<ledgerVars, otherVars>>
    \/ refundStep /\ UNCHANGED <<ledgerVars, otherVars>>
    \/ execReturn /\ UNCHANGED <<ledgerVars, otherVars>>

SpecExec == ExecInit /\ [][ExecNext]_vars

\* A step of the executeAll call in progress: the continuation that runs when
\* the awaited call has settled.
RunStep ==
    /\ \/ authorizeStep
       \/ execTool
       \/ confirmStep
       \/ refundStep
       \/ execReturn
    /\ UNCHANGED <<ledgerVars, otherVars>>

\* Every awaited ledger and tool call settles, and the event loop then runs
\* the continuation.
SpecExecFair == SpecExec /\ WF_vars(RunStep)

\* The gate under the payer's locks and the operator's calls on two sessions,
\* one step each.
TwoNext ==
    \/ \E sid \in SessionIds :
        \/ \E amt \in 1..MaxAmount :
               lockBudget(Payer, sid, amt, MaxStepCount) /\ UNCHANGED <<execVars, otherVars>>
        \/ \E amt \in 1..MaxAmount :
               authorizePayment(operator, sid, "step_0", amt)
                   /\ UNCHANGED <<execVars, otherVars>>
        \/ confirmExecution(operator, sid, "step_0") /\ UNCHANGED <<execVars, otherVars>>
        \/ refund(operator, sid, "step_0") /\ UNCHANGED <<execVars, otherVars>>
        \/ \E amt \in Amounts :
               settleBudget(operator, sid, amt) /\ UNCHANGED <<execVars, otherVars>>
    \/ mint(Stranger, Gate, 1) /\ UNCHANGED <<execVars, otherVars>>
    \/ approve(Payer, Gate, 0) /\ UNCHANGED <<execVars, otherVars>>
    \/ transfer(Payer, Gate, Donation) /\ UNCHANGED <<execVars, otherVars>>
    \/ transferFrom(Payer, Gate, Payer, 1) /\ UNCHANGED <<execVars, otherVars>>

SpecTwo == Init /\ [][TwoNext]_vars

\* The operator settles an existing, unsettled session with a spend that is at
\* most what the session locked.
OperatorSettles(sid) ==
    /\ sessions[sid].payer # NoAddress
    /\ ~sessions[sid].settled
    /\ \E amt \in 0..sessions[sid].totalLocked : settleBudget(operator, sid, amt)
    /\ UNCHANGED <<execVars, otherVars>>

\* The operator does not leave a session that can be settled unsettled for ever.
SpecTwoFair == SpecTwo /\ \A sid \in SessionIds : WF_vars(OperatorSettles(sid))

\* One Executor, with or without a contract address, run once on a plan that
\* carries its budget.
BudgetNext ==
    \/ \E pl \in BudgetPlans :
           runs = 0 /\ executeAllStart(pl) /\ UNCHANGED <<ledgerVars, otherVars>>
    \/ authorizeStep /\ UNCHANGED <<ledgerVars, otherVars>>
    \/ execTool /\ UNCHANGED <<ledgerVars, otherVars>>
    \/ confirmStep /\ UNCHANGED <<ledgerVars, otherVars>>
    \/ refundStep /\ UNCHANGED <<ledgerVars, otherVars>>
    \/ execReturn /\ UNCHANGED <<ledgerVars, otherVars>>

SpecBudget == ExecInit /\ [][BudgetNext]_vars

\* Plans as the ExecutionPlan type admits them: the steps' ids and indices are
\* any of those a plan of this length could use, in any arrangement.
AnyPlans ==
    UNION { { [session_id |-> "s1",
               steps |-> [k \in 1..n |->
                            [id |-> PlanStepIds[ids[k]], index |-> idx[k],
                             tool |-> "tavily",
                             estimated_cost_usd |-> COST_PER_TOOL["tavily"]]],
               step_count |-> n] :
              ids \in [1..n -> 1..MaxPlanLen], idx \in [1..n -> 0..(MaxPlanLen - 1)] } :
            n \in 0..MaxPlanLen }

\* One Executor run once on any such plan.
AnyPlanNext ==
    \/ \E pl \in AnyPlans :
           runs = 0 /\ executeAllStart(pl) /\ UNCHANGED <<ledgerVars, otherVars>>
    \/ authorizeStep /\ UNCHANGED <<ledgerVars, otherVars>>
    \/ execTool /\ UNCHANGED <<ledgerVars, otherVars>>
    \/ confirmStep /\ UNCHANGED <<ledgerVars, otherVars>>
    \/ refundStep /\ UNCHANGED <<ledgerVars, otherVars>>
    \/ execReturn /\ UNCHANGED <<ledgerVars, otherVars>>

SpecAnyPlan == ExecInit /\ [][AnyPlanNext]_vars

\* The plans of the tools the Executor knows.
KnownToolPlans ==
    UNION { { PlanOf(tools) : tools \in [1..n -> {"tavily", "reasoning"}] } :
            n \in 0..MaxPlanLen }

\* One Executor called again after its first executeAll call is over.
RunsNext ==
    \/ \E pl \in KnownToolPlans :
           executeAllWithin(pl, MaxRuns + 1) /\ UNCHANGED <<ledgerVars, otherVars>>
    \/ authorizeStep /\ UNCHANGED <<ledgerVars, otherVars>>
    \/ execTool /\ UNCHANGED <<ledgerVars, otherVars>>
    \/ confirmStep /\ UNCHANGED <<ledgerVars, otherVars>>
    \/ refundStep /\ UNCHANGED <<ledgerVars, otherVars>>
    \/ execReturn /\ UNCHANGED <<ledgerVars, otherVars>>

SpecRuns == ExecInit /\ [][RunsNext]_vars

\* One Executor with a contract address, run once on a plan for session "s1" of
\* the gate; the payer locks the budget before the run, or never, and the
\* operator settles after it.
GateInit ==
    /\ sessions = [s \in SessionIds |-> EmptySession]
    /\ stepPayments = [s \in SessionIds |->
                          [t \in {PlanStepIds[k] : k \in 1..Len(PlanStepIds)} |->
                              EmptyStep]]
    /\ balanceOf = [a \in Addresses |->
                       IF a = Payer THEN amountWei(DoubleOf(MaxBudget)) ELSE 0]
    /\ allowance = [a \in Addresses |-> [b \in Addresses |->
                        IF a = Payer /\ b = Gate
                        THEN amountWei(DoubleOf(MaxBudget)) ELSE 0]]
    /\ lastCall = NoCall
    /\ ExecutorInit({TRUE})
    /\ SynthesizerIdle
    /\ PlannerIdle

GateNext ==
    \/ \E b \in Budgets, sc \in 1..MaxStepCount :
           /\ runs = 0
           /\ lockBudget(Payer, "s1", b, sc)
           /\ UNCHANGED <<execVars, otherVars>>
    \/ \E pl \in GatePlans :
           runs = 0 /\ executeAllStart(pl) /\ UNCHANGED <<ledgerVars, otherVars>>
    \/ gateAuthorize
    \/ gateAuthorized
    \/ execTool /\ UNCHANGED <<ledgerVars, otherVars>>
    \/ gateConfirm
    \/ gateConfirmed
    \/ gateRefund
    \/ gateRefunded
    \/ execReturn /\ UNCHANGED <<ledgerVars, otherVars>>
    \/ gateSettle

SpecGate == GateInit /\ [][GateNext]_vars

\* One synthesize call on any step results, halted flag and provenance strings.
SynthInit ==
    /\ LedgerInit
    /\ ExecutorInit({FALSE})
    /\ synthArgs \in SynthInputs
    /\ response = NoResponse
    /\ pushed = 0
    /\ PlannerIdle

SynthNext ==
    \/ synthesize /\ UNCHANGED <<ledgerVars, execVars, plannerVars>>
    \/ synthesizeResumed /\ UNCHANGED <<ledgerVars, execVars, plannerVars>>
    \/ \E result \in PushedResults(pushed + 1) :
           pushResult(result) /\ UNCHANGED <<ledgerVars, execVars, plannerVars>>

SpecSynth == SynthInit /\ [][SynthNext]_vars

\* One generatePlan call on any step list and budget.
PlannerInit ==
    /\ LedgerInit
    /\ ExecutorInit({FALSE})
    /\ SynthesizerIdle
    /\ planArgs \in [rawTools : SeqsUpTo(RawTools, MaxPlanLen + 1),
                     maxBudget : MaxBudgets]
    /\ planned = NoPlanned

PlannerNext == generatePlan /\ UNCHANGED <<ledgerVars, execVars, synthVars>>

SpecPlanner == PlannerInit /\ [][PlannerNext]_vars

\* ============================================================ claims
\* ---------------------------------------------------- claim vocabulary
LedgerUnchanged == UNCHANGED <<sessions, stepPayments, balanceOf, allowance>>

\* The state of a StepAuthorization as the spec names it, read off the flags.
StepState(sp) ==
    IF ~sp.authorized /\ ~sp.confirmed /\ ~sp.refunded THEN "Unauthorized"
    ELSE IF sp.authorized /\ ~sp.confirmed /\ ~sp.refunded THEN "Authorized"
    ELSE IF sp.authorized /\ sp.confirmed /\ ~sp.refunded THEN "Confirmed"
    ELSE IF sp.authorized /\ ~sp.confirmed /\ sp.refunded THEN "Refunded"
    ELSE "Invalid"

RECURSIVE SumConfirmed(_, _)
SumConfirmed(sid, steps) ==
    IF steps = {} THEN 0
    ELSE LET t == CHOOSE x \in steps : TRUE
         IN  (IF stepPayments[sid][t].confirmed
              THEN stepPayments[sid][t].amount ELSE 0)
             + SumConfirmed(sid, steps \ {t})

\* The sum of the amounts of the session's steps in the Confirmed state.
ConfirmedSum(sid) == SumConfirmed(sid, StepIds)

GateOps ==
    {"lockBudget", "authorizePayment", "confirmExecution", "refund",
     "settleBudget"}
StepOps == {"authorizePayment", "confirmExecution", "refund"}
OperatorOps == StepOps \cup {"settleBudget"}

\* C1: in every reachable state every session's totalSpent is at most its
\* totalLocked.
C1_SpentWithinLocked ==
    \A s \in SessionIds : sessions[s].totalSpent <= sessions[s].totalLocked

\* C2: in every reachable state, settled or not, every session's totalSpent
\* equals the sum of the amounts of its Confirmed steps.
C2_SpentEqualsConfirmedSum ==
    \A s \in SessionIds : sessions[s].totalSpent = ConfirmedSum(s)

\* C3: a step authorization only moves Unauthorized -> Authorized and then
\* Authorized -> Confirmed or Authorized -> Refunded; Confirmed and Refunded are
\* terminal; no step is ever both confirmed and refunded, and a confirmed or
\* refunded step is an authorized one.
C3_StepLifecycle ==
    /\ [](\A s \in SessionIds, t \in StepIds :
              StepState(stepPayments[s][t]) # "Invalid")
    /\ [][\A s \in SessionIds, t \in StepIds :
              LET before == StepState(stepPayments[s][t])
                  after == StepState(stepPayments[s][t]')
              IN  \/ after = before
                  \/ before = "Unauthorized" /\ after = "Authorized"
                  \/ before = "Authorized" /\ after \in {"Confirmed", "Refunded"}]_vars

C3_Witness ==
    /\ StepState(stepPayments["s1"]["step_0"]) = "Confirmed"
    /\ StepState(stepPayments["s1"]["step_1"]) = "Refunded"
    /\ lastCall.op = "confirmExecution" /\ lastCall.step = "step_1"
    /\ lastCall.caller = operator /\ ~lastCall.ok

\* A confirm or refund of a step that is not Authorized, or an authorize of a step
\* that is not Unauthorized, judged on the state the call finds.
OutOfOrder(c) ==
    \/ /\ c.op \in {"confirmExecution", "refund"}
       /\ StepState(stepPayments[c.sid][c.step]) # "Authorized"
    \/ /\ c.op = "authorizePayment"
       /\ StepState(stepPayments[c.sid][c.step]) # "Unauthorized"

\* C4: every out-of-order call (confirm or refund of a step never authorized,
\* already confirmed or already refunded; authorize of a step already Authorized,
\* Confirmed or Refunded) is rejected and leaves sessions, step records and token
\* balances unchanged.
C4_OutOfOrderRejected ==
    [][OutOfOrder(lastCall') => ~lastCall'.ok /\ LedgerUnchanged]_vars

C4_Witness ==
    /\ lastCall.op = "authorizePayment" /\ lastCall.caller = operator
    /\ lastCall.err = "X402: step already authorized"
    /\ StepState(stepPayments[lastCall.sid][lastCall.step]) = "Refunded"
    /\ stepPayments[lastCall.sid][lastCall.step].amount # lastCall.amount

\* C5: settled only changes from false to true, and once a session is settled
\* every later call for it is rejected and changes neither its session record
\* nor its step records.
C5_SettledIsFinal ==
    [][\A s \in SessionIds :
           sessions[s].settled =>
               /\ sessions'[s] = sessions[s]
               /\ stepPayments'[s] = stepPayments[s]
               /\ (lastCall'.sid = s => ~lastCall'.ok)]_vars

C5_Witness ==
    /\ lastCall.op = "lockBudget" /\ lastCall.caller = Payer
    /\ lastCall.amount > 0 /\ lastCall.stepCount > 0
    /\ sessions[lastCall.sid].settled
    /\ ~lastCall.ok

\* C6: a settle call on an already-settled session fails, whatever totalSpent it
\* passes (for the operator: with "session already settled"), and moves no
\* tokens.
C6_SecondSettleFails ==
    [][(lastCall'.op = "settleBudget" /\ sessions[lastCall'.sid].settled) =>
           /\ ~lastCall'.ok
           /\ balanceOf' = balanceOf
           /\ (lastCall'.caller = operator =>
                   lastCall'.err = "X402: session already settled")]_vars

C6_Witness ==
    /\ lastCall.op = "settleBudget" /\ lastCall.caller = operator
    /\ sessions[lastCall.sid].settled
    /\ lastCall.amount # sessions[lastCall.sid].totalSpent
    /\ lastCall.amount <= sessions[lastCall.sid].totalLocked
    /\ ~lastCall.ok

\* The balances after `toPayer` went from the gate to the payer and `toOperator`
\* from the gate to the operator.
Payout(bal, payer, toPayer, toOperator) ==
    TokenMove(TokenMove(bal, Gate, payer, toPayer), Gate, operator, toOperator)

\* C7: a successful settle(sessionId, x) moves exactly totalLocked - x to the
\* payer and exactly x to the operator; settle fails, moving nothing, when the
\* session does not exist, is already settled, or x > totalLocked.
C7_SettleSplitsLocked ==
    [][lastCall'.op = "settleBudget" =>
           LET s == lastCall'.sid
               x == lastCall'.amount
               bad == \/ sessions[s].payer = NoAddress
                      \/ sessions[s].settled
                      \/ x > sessions[s].totalLocked
           IN  /\ bad => ~lastCall'.ok
               /\ IF lastCall'.ok
                  THEN balanceOf' = Payout(balanceOf, sessions[s].payer,
                                           sessions[s].totalLocked - x, x)
                  ELSE balanceOf' = balanceOf]_vars

C7_Witness ==
    /\ lastCall.op = "settleBudget" /\ lastCall.ok
    /\ lastCall.amount > 0
    /\ lastCall.amount < sessions[lastCall.sid].totalLocked
    /\ balanceOf[operator] = lastCall.amount
    /\ balanceOf[Gate] = 0

\* C8: on every successful settlement the payer receives totalLocked minus the
\* sum of the Confirmed amounts and the operator receives the sum of the
\* Confirmed amounts.
C8_SettlePaysConfirmed ==
    [][(lastCall'.op = "settleBudget" /\ lastCall'.ok) =>
           LET s == lastCall'.sid IN
           balanceOf' = Payout(balanceOf, sessions[s].payer,
                               sessions[s].totalLocked - ConfirmedSum(s),
                               ConfirmedSum(s))]_vars

\* C9: authorize, confirm, refund and settle succeed only for the operator; made
\* by anyone else (the session's payer included) the call is rejected and leaves
\* the ledger and the balances unchanged.
C9_OnlyOperator ==
    [][(lastCall'.op \in OperatorOps /\ lastCall'.caller # operator) =>
           ~lastCall'.ok /\ LedgerUnchanged]_vars

C9_Witness ==
    /\ lastCall.op = "confirmExecution"
    /\ lastCall.caller = sessions[lastCall.sid].payer
    /\ StepState(stepPayments[lastCall.sid][lastCall.step]) = "Authorized"
    /\ ~sessions[lastCall.sid].settled
    /\ lastCall.err = "X402: caller is not operator"

\* C10: in every run the tool of a step is invoked only right after the
\* authorize call for that same step returned success, and a step whose
\* authorization was denied (or whose authorize call failed) never has its tool
\* invoked.
C10_ToolOnlyAfterAuthorize ==
    \A j \in 1..Len(trace) :
        /\ trace[j].kind = "tool" =>
               /\ j > 1
               /\ trace[j - 1].kind = "authorize"
               /\ trace[j - 1].ok
               /\ trace[j - 1].pos = trace[j].pos
               /\ trace[j - 1].step_id = trace[j].step_id
        /\ (trace[j].kind = "authorize" /\ ~trace[j].ok) =>
               \A k \in 1..Len(trace) :
                   ~(trace[k].kind = "tool" /\ trace[k].pos = trace[j].pos)

C10_Witness ==
    /\ pc = "idle" /\ runs > 0
    /\ returned.run = runs
    /\ \E j \in 1..Len(trace) : trace[j].kind = "tool" /\ trace[j].pos = 1
    /\ \E j \in 1..Len(trace) :
           trace[j].kind = "authorize" /\ ~trace[j].ok /\ trace[j].pos = 2

\* The operator's authorize call on an existing, unsettled session and a step
\* still Unauthorized, judged on the state the call finds.
AuthorizeInOrder(c) ==
    /\ c.op = "authorizePayment" /\ c.caller = operator
    /\ sessions[c.sid].payer # NoAddress
    /\ ~sessions[c.sid].settled
    /\ StepState(stepPayments[c.sid][c.step]) = "Unauthorized"

\* C15: authorize on an existing unsettled session with an Unauthorized step
\* succeeds if and only if totalSpent + amount <= totalLocked; on success the
\* step is Authorized with that amount and the session record and the token
\* balances are unchanged; on "exceeds budget" the step stays Unauthorized.
C15_AuthorizeIffWithinBudget ==
    [][AuthorizeInOrder(lastCall') =>
           LET c == lastCall'
               fits == sessions[c.sid].totalSpent + c.amount
                           <= sessions[c.sid].totalLocked
           IN  /\ c.ok <=> fits
               /\ c.ok =>
                      /\ stepPayments'[c.sid][c.step] =
                             [amount |-> c.amount, authorized |-> TRUE,
                              confirmed |-> FALSE, refunded |-> FALSE]
                      /\ \A t \in StepIds \ {c.step} :
                             stepPayments'[c.sid][t] = stepPayments[c.sid][t]
                      /\ UNCHANGED <<sessions, balanceOf, allowance>>
               /\ ~c.ok =>
                      /\ c.err = "X402: exceeds budget"
                      /\ LedgerUnchanged]_vars

C15_Witness ==
    /\ lastCall.op = "authorizePayment" /\ lastCall.ok
    /\ lastCall.amount > 0
    /\ sessions[lastCall.sid].totalSpent > 0
    /\ sessions[lastCall.sid].totalSpent + lastCall.amount
           = sessions[lastCall.sid].totalLocked
    /\ StepState(stepPayments[lastCall.sid][lastCall.step]) = "Authorized"

RECURSIVE SumReserved(_, _)
SumReserved(sid, steps) ==
    IF steps = {} THEN 0
    ELSE LET t == CHOOSE x \in steps : TRUE
         IN  (IF StepState(stepPayments[sid][t]) \in {"Authorized", "Confirmed"}
              THEN stepPayments[sid][t].amount ELSE 0)
             + SumReserved(sid, steps \ {t})

\* C16: in every reachable state the amounts of a session's steps that are
\* Authorized or Confirmed sum to at most its totalLocked.
C16_ReservedWithinLocked ==
    \A s \in SessionIds : SumReserved(s, StepIds) <= sessions[s].totalLocked

\* C17: lock is rejected, with no session created or altered and no tokens
\* moved, when the sessionId already exists (settled or not), when amount is 0
\* or when stepCount is 0.
C17_BadLockRejected ==
    [][(/\ lastCall'.op = "lockBudget"
        /\ \/ sessions[lastCall'.sid].payer # NoAddress
           \/ lastCall'.amount <= 0
           \/ lastCall'.stepCount <= 0) =>
           ~lastCall'.ok /\ LedgerUnchanged]_vars

C17_Witness ==
    /\ lastCall.op = "lockBudget" /\ lastCall.caller = Payer
    /\ lastCall.err = "X402: session exists"
    /\ lastCall.amount > 0 /\ lastCall.stepCount > 0
    /\ ~sessions[lastCall.sid].settled
    /\ sessions[lastCall.sid].totalSpent > 0
    /\ balanceOf[Payer] >= lastCall.amount

\* C18: a successful lock creates the session with payer = caller, totalLocked =
\* amount, totalSpent = 0, the given stepCount and settled = false, and moves
\* exactly amount tokens from the caller to the gate; if the token transfer
\* fails no session is created.
C18_LockCreatesSession ==
    [][lastCall'.op = "lockBudget" =>
           LET c == lastCall'
               transferFails == \/ balanceOf[c.caller] < c.amount
                                \/ allowance[c.caller][Gate] < c.amount
           IN  /\ c.ok =>
                      /\ sessions'[c.sid] =
                             [payer |-> c.caller, totalLocked |-> c.amount,
                              totalSpent |-> 0, stepCount |-> c.stepCount,
                              settled |-> FALSE]
                      /\ balanceOf'[c.caller] = balanceOf[c.caller] - c.amount
                      /\ balanceOf'[Gate] = balanceOf[Gate] + c.amount
                      /\ \A a \in Addresses \ {c.caller, Gate} :
                             balanceOf'[a] = balanceOf[a]
                      /\ \A s \in SessionIds \ {c.sid} : sessions'[s] = sessions[s]
                      /\ stepPayments' = stepPayments
               /\ transferFails =>
                      /\ ~c.ok
                      /\ sessions' = sessions
                      /\ balanceOf' = balanceOf]_vars

C18_Witness ==
    /\ lastCall.op = "lockBudget" /\ lastCall.ok
    /\ lastCall.amount = MaxAmount
    /\ sessions[lastCall.sid].payer = lastCall.caller
    /\ balanceOf[Gate] = lastCall.amount
    /\ balanceOf[lastCall.caller] = InitialFunds - lastCall.amount

\* C19: a successful refund changes only the refunded step, to Refunded: the
\* session record, what getRemainingBudget reports, every other step and all
\* token balances are unchanged, and the step is not reported as confirmed.
C19_RefundFrame ==
    [][\A sid \in SessionIds, step \in StepIds :
           (/\ lastCall'.op = "refund" /\ lastCall'.ok
            /\ lastCall'.sid = sid /\ lastCall'.step = step) =>
               /\ StepState(stepPayments[sid][step]) = "Authorized"
               /\ StepState(stepPayments'[sid][step]) = "Refunded"
               /\ stepPayments'[sid][step].amount = stepPayments[sid][step].amount
               /\ ~isStepConfirmed(sid, step)'
               /\ \A s \in SessionIds, t \in StepIds :
                      <<s, t>> # <<sid, step>> =>
                          stepPayments'[s][t] = stepPayments[s][t]
               /\ getRemainingBudget(sid)' = getRemainingBudget(sid)
               /\ UNCHANGED <<sessions, balanceOf, allowance>>]_vars

C19_Witness ==
    /\ lastCall.op = "refund" /\ lastCall.ok
    /\ StepState(stepPayments[lastCall.sid][lastCall.step]) = "Refunded"
    /\ stepPayments[lastCall.sid][lastCall.step].amount > 0
    /\ sessions[lastCall.sid].totalSpent > 0
    /\ getRemainingBudget(lastCall.sid) = [ok |-> TRUE, value |-> 0]

\* C20: in every reachable state getRemainingBudget returns, without failing,
\* totalLocked - totalSpent (isStepAuthorized and isStepConfirmed read one flag
\* and cannot fail).
C20_ReadsNeverFail ==
    \A s \in SessionIds :
        /\ getRemainingBudget(s).ok
        /\ getRemainingBudget(s).value
               = sessions[s].totalLocked - sessions[s].totalSpent
        /\ \A t \in StepIds :
               /\ isStepAuthorized(s, t) \in BOOLEAN
               /\ isStepConfirmed(s, t) \in BOOLEAN

\* The StepResults the events of a run pushed, in order: a denied authorization
\* pushes payment_denied, a tool call pushes completed or failed, and a confirm
\* that does not resolve pushes failed.
ResultOfEvent(e) ==
    LET step == plan.steps[e.pos] IN
    IF e.kind = "authorize" /\ ~e.ok
        THEN <<StepResult(step, "payment_denied", 0)>>
    ELSE IF e.kind = "tool" /\ e.ok
        THEN <<StepResult(step, "completed", COST_PER_TOOL[step.tool])>>
    ELSE IF (e.kind = "tool" \/ e.kind = "confirm") /\ ~e.ok
        THEN <<StepResult(step, "failed", 0)>>
    ELSE <<>>

RECURSIVE ProducedResults(_)
ProducedResults(tr) ==
    IF tr = <<>> THEN <<>>
    ELSE ProducedResults(SubSeq(tr, 1, Len(tr) - 1)) \o ResultOfEvent(tr[Len(tr)])

\* The part of a result list that the current run appended.
RunResults(results) ==
    LET n == Len(ProducedResults(trace)) IN
    IF n > Len(results) THEN results
    ELSE SubSeq(results, Len(results) - n + 1, Len(results))

\* executeAll has returned to its caller and no later call has started.
RunReturned == pc = "idle" /\ runs > 0 /\ returned.run = runs

\* C11: a payment_denied result of a run is the last element of the returned
\* list, no step with a larger index has a result or any ledger or tool call,
\* and the returned halted flag is true; halted is true only when the last
\* result is payment_denied; a failed authorize call is a denial.
C11_DenialEndsRun ==
    /\ \A j \in 1..Len(trace) :
           (trace[j].kind = "authorize" /\ ~trace[j].ok) =>
               /\ j = Len(trace)
               /\ halted
               /\ Len(stepResults) > 0
               /\ stepResults[Len(stepResults)].status = "payment_denied"
               /\ stepResults[Len(stepResults)].step_id = trace[j].step_id
    /\ RunReturned =>
           LET rr == RunResults(returned.results) IN
           /\ \A k \in 1..Len(rr) :
                  rr[k].status = "payment_denied" =>
                      /\ k = Len(rr)
                      /\ returned.halted
                      /\ \A i \in 1..Len(rr) : rr[i].index <= rr[k].index
                      /\ \A j \in 1..Len(trace) :
                             plan.steps[trace[j].pos].index <= rr[k].index
                      /\ trace[Len(trace)].kind = "authorize"
           /\ returned.halted =>
                  /\ Len(rr) > 0
                  /\ rr[Len(rr)].status = "payment_denied"
                  /\ returned.results[Len(returned.results)] = rr[Len(rr)]

C11_Witness ==
    /\ RunReturned
    /\ returned.halted
    /\ Len(RunResults(returned.results)) = 2
    /\ returned.results[1].status = "completed"
    /\ returned.results[2].status = "payment_denied"
    /\ returned.results[2].index = 1

\* The actual costs of the completed results, added in the order of the list.
RECURSIVE CompletedCost(_)
CompletedCost(results) ==
    IF results = <<>> THEN DoubleZero
    ELSE LET before == CompletedCost(SubSeq(results, 1, Len(results) - 1))
             last == results[Len(results)]
         IN  IF last.status = "completed"
             THEN DoubleAdd(before, DoubleOf(last.actual_cost_usd))
             ELSE before

\* The run is over: executeAll returned or threw.
RunOver == pc \in {"idle", "threw"} /\ runs > 0

\* C12: when a step's tool invocation fails the step's result is failed with
\* cost 0, refund and not confirm is called for it, the run is not halted by it
\* (a run that is halted was denied a later step), the next step of the plan is
\* still submitted for authorization, and the spend the run returns is the
\* cost of the completed results only.
C12_ToolFailureGoesOn ==
    /\ \A j \in 1..Len(trace) :
           (trace[j].kind = "tool" /\ ~trace[j].ok) =>
               /\ \E k \in 1..Len(RunResults(stepResults)) :
                      LET result == RunResults(stepResults)[k] IN
                      /\ result.step_id = trace[j].step_id
                      /\ result.index = plan.steps[trace[j].pos].index
                      /\ result.status = "failed"
                      /\ result.actual_cost_usd = 0
               /\ \A k \in 1..Len(trace) :
                      ~(trace[k].kind = "confirm" /\ trace[k].pos = trace[j].pos)
               /\ j < Len(trace) =>
                      trace[j + 1].kind = "refund" /\ trace[j + 1].pos = trace[j].pos
               /\ halted =>
                      \E k \in (j + 1)..Len(trace) :
                          /\ trace[k].kind = "authorize" /\ ~trace[k].ok
                          /\ trace[k].pos > trace[j].pos
               /\ (RunOver /\ trace[j].pos < Len(plan.steps)) =>
                      \E k \in 1..Len(trace) :
                          /\ k > j
                          /\ trace[k].kind = "authorize"
                          /\ trace[k].pos = trace[j].pos + 1
    /\ RunOver =>
           /\ RunReturned
           /\ returned.totalSpent = CompletedCost(returned.results)

C12_Witness ==
    /\ RunReturned
    /\ onchain
    /\ ~returned.halted
    /\ Len(plan.steps) = 2
    /\ plan.steps[1].tool \in ToolTypes
    /\ Len(returned.results) = 2
    /\ returned.results[1].status = "failed"
    /\ returned.results[2].status = "completed"
    /\ returned.totalSpent = DoubleOf(COST_PER_TOOL[plan.steps[2].tool])
    /\ \E j \in 1..Len(trace) :
           trace[j].kind = "refund" /\ trace[j].pos = 1 /\ trace[j].ok

\* C14: a halted run returns every StepResult produced before the denial: each
\* step with a smaller index than the denied step has its completed or failed
\* result in the returned list, followed by the payment_denied result, with
\* halted = true.
C14_HaltedReturnsAll ==
    (RunReturned /\ \E j \in 1..Len(trace) :
                        trace[j].kind = "authorize" /\ ~trace[j].ok) =>
        LET rr == RunResults(returned.results)
            denied == rr[Len(rr)]
        IN  /\ returned.halted
            /\ rr = ProducedResults(trace)
            /\ denied.status = "payment_denied"
            /\ \A i \in 0..(denied.index - 1) :
                   \E k \in 1..(Len(rr) - 1) :
                       /\ rr[k].index = i
                       /\ rr[k].status \in {"completed", "failed"}
            /\ \A k \in 1..(Len(rr) - 1) :
                   /\ rr[k].status \in {"completed", "failed"}
                   /\ rr[k].index < denied.index
                   /\ rr[k].index <= rr[k + 1].index

C14_Witness ==
    /\ RunReturned
    /\ returned.halted
    /\ Len(returned.results) = MaxPlanLen
    /\ returned.results[1].status = "failed"
    /\ returned.results[MaxPlanLen].status = "payment_denied"
    /\ returned.results[MaxPlanLen].index = MaxPlanLen - 1

\* C13: at the end of a run in which every ledger call reached the ledger, the
\* sum of actualCost over the completed StepResults, which is the scheduler's
\* totalSpent, equals the ledger's totalSpent of the plan's session (the same
\* value of USD in the token's units).
C13_SpendMatchesLedger ==
    RunReturned =>
        /\ returned.totalSpent = CompletedCost(returned.results)
        /\ amountWei(CompletedCost(returned.results))
               = sessions[plan.session_id].totalSpent

\* Whether call c succeeds, read from the caller, the arguments, the records
\* of the called session and (for lock) the caller's own tokens.
OwnOutcome(c) ==
    LET se == sessions[c.sid]
        live == c.caller = operator /\ se.payer # NoAddress /\ ~se.settled
    IN  CASE c.op = "lockBudget" ->
                 /\ se.payer = NoAddress
                 /\ c.amount > 0 /\ c.stepCount > 0
                 /\ balanceOf[c.caller] >= c.amount
                 /\ allowance[c.caller][Gate] >= c.amount
          [] c.op = "authorizePayment" ->
                 /\ live
                 /\ se.totalSpent + c.amount <= se.totalLocked
                 /\ ~stepPayments[c.sid][c.step].authorized
          [] c.op \in {"confirmExecution", "refund"} ->
                 /\ live
                 /\ StepState(stepPayments[c.sid][c.step]) = "Authorized"
          [] c.op = "settleBudget" ->
                 live /\ c.amount <= se.totalLocked

\* C21: a call for one session, successful or rejected, leaves the session
\* record and the step records of every other session unchanged, and whether
\* it succeeds is decided by the called session's own records.
C21_SessionsIndependent ==
    [][lastCall'.op \in GateOps =>
           /\ \A o \in SessionIds \ {lastCall'.sid} :
                  /\ sessions'[o] = sessions[o]
                  /\ stepPayments'[o] = stepPayments[o]
           /\ lastCall'.ok <=> OwnOutcome(lastCall')]_vars

C21_Witness ==
    /\ lastCall.op = "settleBudget" /\ lastCall.ok /\ lastCall.sid = "s2"
    /\ sessions["s1"].payer # NoAddress /\ ~sessions["s1"].settled
    /\ sessions["s1"].totalSpent > 0
    /\ sessions["s2"].totalSpent < sessions["s2"].totalLocked
    /\ balanceOf[Gate] = sessions["s1"].totalLocked

\* C22: authorize, confirm and refund, successful or rejected, change no
\* token balance; tokens leave the gate only in the operator's successful
\* settle, and no call made by the payer raises the payer's balance.
C22_EscrowHeldUntilSettle ==
    [][/\ lastCall'.op \in StepOps => balanceOf' = balanceOf
       /\ balanceOf'[Gate] < balanceOf[Gate] =>
              /\ lastCall'.op = "settleBudget"
              /\ lastCall'.caller = operator
              /\ lastCall'.ok
              /\ ~sessions[lastCall'.sid].settled
       /\ lastCall'.caller = Payer => balanceOf'[Payer] <= balanceOf[Payer]]_vars

C22_Witness ==
    /\ lastCall.op = "settleBudget" /\ lastCall.caller = Payer
    /\ ~lastCall.ok
    /\ sessions[lastCall.sid].payer = Payer
    /\ ~sessions[lastCall.sid].settled
    /\ \E t \in StepIds : StepState(stepPayments[lastCall.sid][t]) = "Refunded"
    /\ balanceOf[Gate] = sessions[lastCall.sid].totalLocked
    /\ balanceOf[Gate] > 0

\* A plan of at least two steps of one estimated cost c, built for a budget b
\* with c <= b < 2c.
BudgetCoversOneStep ==
    /\ Len(plan.steps) >= 2
    /\ \A k \in 1..Len(plan.steps) :
           plan.steps[k].estimated_cost_usd = plan.steps[1].estimated_cost_usd
    /\ plan.steps[1].estimated_cost_usd > 0
    /\ plan.steps[1].estimated_cost_usd <= plan.max_budget
    /\ plan.max_budget < 2 * plan.steps[1].estimated_cost_usd

\* C23: when the plan's budget covers one step but not two, the first tool
\* succeeds and its confirm call returns, the run returns exactly
\* [completed, payment_denied] with halted true and one step executed.
C23_HaltsWhenBudgetShort ==
    (/\ RunReturned
     /\ BudgetCoversOneStep
     /\ \E j \in 1..Len(trace) :
            trace[j].kind = "confirm" /\ trace[j].pos = 1 /\ trace[j].ok) =>
        /\ Len(returned.results) = 2
        /\ returned.results[1].status = "completed"
        /\ returned.results[1].step_id = plan.steps[1].id
        /\ returned.results[2].status = "payment_denied"
        /\ returned.results[2].step_id = plan.steps[2].id
        /\ returned.halted

\* The sum of the plan's step costs, in the token's units.
RECURSIVE SumOfStepCosts(_)
SumOfStepCosts(steps) ==
    IF steps = <<>> THEN 0
    ELSE amountWei(DoubleOf(Head(steps).estimated_cost_usd))
         + SumOfStepCosts(Tail(steps))

\* The session of the plan was locked with at least the sum of the plan's step
\* costs, and no tool call of the run failed.
FundedAndAllToolsSucceed ==
    /\ RunReturned
    /\ sessions[plan.session_id].payer # NoAddress
    /\ sessions[plan.session_id].totalLocked >= SumOfStepCosts(plan.steps)
    /\ \A j \in 1..Len(trace) : trace[j].kind = "tool" => trace[j].ok

\* C24: when the session is locked with at least the sum of the plan's step
\* costs and every tool succeeds, no authorization is denied, the run returns
\* not halted with one completed result per step, the ledger's totalSpent is
\* the sum of the step costs, and the settle of the session with that value
\* pays it to the operator and returns totalLocked minus it to the payer.
C24_FundedRunCompletes ==
    FundedAndAllToolsSucceed =>
        LET se == sessions[plan.session_id]
            sum == SumOfStepCosts(plan.steps)
        IN  /\ \A j \in 1..Len(trace) : trace[j].ok
            /\ ~returned.halted
            /\ Len(returned.results) = Len(plan.steps)
            /\ \A k \in 1..Len(plan.steps) :
                   /\ returned.results[k].status = "completed"
                   /\ returned.results[k].step_id = plan.steps[k].id
            /\ ~se.settled => se.totalSpent = sum
            /\ (/\ lastCall.op = "settleBudget" /\ lastCall.amount = sum
                /\ lastCall.err # "X402: session already settled") =>
                   /\ lastCall.ok
                   /\ se.settled
                   /\ balanceOf[operator] = sum
                   /\ balanceOf[Payer] = amountWei(DoubleOf(MaxBudget)) - sum
                   /\ balanceOf[Gate] = 0

\* C25: a step whose tool is not a recognized one is handled as a failed step:
\* its tool call fails, its result is failed, refund is called for it, the run
\* is neither halted by it nor aborted, and the following step is processed.
C25_UnknownToolIsFailedStep ==
    \A j \in 1..Len(trace) :
        (trace[j].kind = "tool" /\ plan.steps[trace[j].pos].tool \notin ToolTypes) =>
            /\ ~trace[j].ok
            /\ \E k \in 1..Len(stepResults) :
                   /\ stepResults[k].step_id = trace[j].step_id
                   /\ stepResults[k].status = "failed"
                   /\ stepResults[k].tool \notin ToolTypes
            /\ j < Len(trace) =>
                   trace[j + 1].kind = "refund" /\ trace[j + 1].pos = trace[j].pos
            /\ pc # "threw"
            /\ RunOver =>
                   /\ returned.run = runs
                   /\ trace[j].pos < Len(plan.steps) =>
                          \E k \in 1..Len(trace) :
                              /\ k > j
                              /\ trace[k].kind = "authorize"
                              /\ trace[k].pos = trace[j].pos + 1

C25_Witness ==
    /\ RunReturned
    /\ onchain
    /\ ~returned.halted
    /\ Len(plan.steps) = 2
    /\ plan.steps[1].tool \notin ToolTypes
    /\ trace[Len(trace)].kind = "confirm" /\ trace[Len(trace)].pos = 2
    /\ returned.results[1].status = "failed"
    /\ returned.results[1].tool = plan.steps[1].tool

\* C26: at any point of a run the budget status of the plan has spent = the sum
\* of actualCost over the completed results so far, remaining = max_budget -
\* spent, locked = total_estimated_cost, steps_completed = the number of
\* completed results, and steps_completed + steps_remaining = the step count.
C26_BudgetStatus ==
    runs > 0 =>
        LET status == getBudgetStatus(plan) IN
        /\ status.total_spent = CompletedCost(stepResults)
        /\ status.remaining
               = DoubleMinus(DoubleOf(plan.max_budget), CompletedCost(stepResults))
        /\ status.total_locked = plan.total_estimated_cost
        /\ status.steps_completed
               = Cardinality({k \in 1..Len(stepResults) :
                                  stepResults[k].status = "completed"})
        /\ status.steps_completed + status.steps_remaining = Len(plan.steps)

C26_Witness ==
    /\ runs > 0
    /\ plan.max_budget = COST_PER_TOOL["tavily"] + COST_PER_TOOL["reasoning"]
    /\ getBudgetStatus(plan).steps_completed = 2
    /\ getBudgetStatus(plan).steps_remaining = 0
    /\ DoubleGt(getBudgetStatus(plan).total_spent, DoubleOf(plan.max_budget))
    /\ getBudgetStatus(plan).remaining.negative
    /\ getBudgetStatus(plan).remaining
           # DoubleMinus(getBudgetStatus(plan).total_locked,
                         getBudgetStatus(plan).total_spent)

\* ------------------------------------------------------------ Synthesizer
\* The provenance string a source entry was built from.
RawSource(ref) == IF ref.url # "" THEN ref.url ELSE ref.title

\* Where `str` first occurs in `sources`.
FirstIndex(sources, str) ==
    CHOOSE i \in 1..Len(sources) :
        sources[i] = str /\ \A j \in 1..(i - 1) : sources[j] # str

\* A string that parses as a locator with a host.
IsLocator(str) == URL(str).ok /\ URL(str).hostname # ""

\* C27: the report a synthesize call returns carries the halted flag it was
\* given as results.was_halted, has status "halted" if the flag is true and
\* "completed" otherwise, counts in results.steps_executed the step results
\* whose status is completed, and lists in actions every step result it was
\* given, in order, the failed and payment_denied ones included.
C27_ReportMarksPartial ==
    response.state = "resolved" =>
        /\ response.results.was_halted = synthArgs.wasHalted
        /\ response.status = (IF synthArgs.wasHalted THEN "halted" ELSE "completed")
        /\ response.results.steps_executed
               = Cardinality({k \in 1..Len(synthArgs.stepResults) :
                                 synthArgs.stepResults[k].status = "completed"})
        /\ response.actions = synthArgs.stepResults

\* The array a report's actions is, as it was when synthesize read its
\* sources: results are only ever appended, so a prefix of it.
SourcesReadFrom(report) ==
    {n \in 0..Len(report.actions) :
         allSources(SubSeq(report.actions, 1, n)) = report.sources}

\* C28: the source list of a report holds every distinct provenance string of
\* the completed steps synthesize was called with exactly once, in the order
\* in which the strings first occur; strings that differ stay separate entries
\* even when their titles are equal; and deduplicating the deduplicated
\* strings again changes nothing.
C28_ExactStringDedup ==
    response.state = "resolved" =>
        LET all == response.sources
            refs == response.results.sources
            raws == [k \in 1..Len(refs) |-> RawSource(refs[k])]
        IN  /\ SourcesReadFrom(response) # {}
            /\ pushed = 0 => all = allSources(synthArgs.stepResults)
            /\ {raws[k] : k \in 1..Len(raws)} = {all[i] : i \in 1..Len(all)}
            /\ \A j, k \in 1..Len(raws) : j # k => raws[j] # raws[k]
            /\ \A j, k \in 1..Len(raws) :
                   j < k => FirstIndex(all, raws[j]) < FirstIndex(all, raws[k])
            /\ unique(raws) = raws
            /\ deduplicateSources(raws).refs = refs

C28_Witness ==
    /\ response.state = "resolved"
    /\ LET all == response.sources
           refs == response.results.sources
       IN  /\ Len(all) = 4
           /\ Len(refs) = 3
           /\ RawSource(refs[1]) = "https://a.com/x"
           /\ RawSource(refs[2]) = "https://a.com/y"
           /\ RawSource(refs[3]) = "internal-note"
           /\ refs[1].title = "a.com" /\ refs[2].title = "a.com"

\* C29: no synthesize call fails over a provenance string (it rejects only
\* with the model call, or over the reply of the model); the title of each
\* source entry is the host of its string if the string is a locator with a
\* host, and the string itself otherwise; every entry has the relevance
\* "primary".
C29_EntryForEveryString ==
    /\ response.state = "rejected" => response.error # "Invalid URL"
    /\ response.state = "resolved" =>
           \A k \in 1..Len(response.results.sources) :
               LET ref == response.results.sources[k]
                   all == unique(response.sources)
               IN  /\ ref.relevance = "primary"
                   /\ ref.title = IF IsLocator(all[k])
                                  THEN URL(all[k]).hostname
                                  ELSE all[k]

\* ------------------------------------------------------------ call order
\* The ledger calls of the run, in the order in which they were issued.
LedgerCalls ==
    SelectSeq(trace, LAMBDA e : e.kind \in {"authorize", "confirm", "refund"})

\* C30: for every step of a run the ledger sees authorize first and then
\* exactly one of confirm or refund; authorize is issued at most once per step;
\* steps are submitted in plan order; and the first ledger call of a step comes
\* after the confirm or refund of the step before it.
C30_LedgerCallOrder ==
    LET calls == LedgerCalls IN
    /\ \A j \in 1..Len(calls) :
           /\ calls[j].kind = "authorize" =>
                  /\ \A i \in 1..(j - 1) :
                         ~(calls[i].kind = "authorize" /\ calls[i].pos = calls[j].pos)
                  /\ j > 1 =>
                         /\ calls[j - 1].kind \in {"confirm", "refund"}
                         /\ calls[j - 1].pos < calls[j].pos
           /\ calls[j].kind \in {"confirm", "refund"} =>
                  /\ j > 1
                  /\ calls[j - 1].kind = "authorize"
                  /\ calls[j - 1].ok
                  /\ calls[j - 1].pos = calls[j].pos
           /\ \A i \in 1..(j - 1) : calls[i].pos <= calls[j].pos
    /\ RunReturned =>
           \A j \in 1..Len(calls) :
               (calls[j].kind = "authorize" /\ calls[j].ok) =>
                   /\ j < Len(calls)
                   /\ calls[j + 1].kind \in {"confirm", "refund"}

C30_Witness ==
    /\ RunReturned
    /\ onchain
    /\ Len(LedgerCalls) = 4
    /\ LedgerCalls[2].kind = "confirm" /\ LedgerCalls[2].pos = 1
    /\ LedgerCalls[4].kind = "refund" /\ LedgerCalls[4].pos = 2

\* ------------------------------------------------------------ result order
\* C31: in the result list a run returns the index values are strictly
\* increasing, so that no plan step has two results, and the result at
\* position k is the result of the k-th step of the plan.
C31_ResultsInIndexOrder ==
    RunReturned =>
        LET rr == returned.results IN
        /\ \A k \in 1..(Len(rr) - 1) : rr[k].index < rr[k + 1].index
        /\ \A k \in 1..Len(rr) :
               /\ k <= Len(plan.steps)
               /\ rr[k].step_id = plan.steps[k].id
               /\ rr[k].index = plan.steps[k].index

\* ------------------------------------------------------------ termination
\* The run returned with halted = false and exactly one result for every step
\* of the plan, in plan order.
EndedCompleted ==
    /\ RunReturned
    /\ ~returned.halted
    /\ LET rr == RunResults(returned.results) IN
       /\ Len(rr) = Len(plan.steps)
       /\ \A k \in 1..Len(rr) : rr[k].step_id = plan.steps[k].id

\* The run returned with halted = true, its last call a denied authorization.
EndedHalted ==
    /\ RunReturned
    /\ returned.halted
    /\ trace # <<>>
    /\ trace[Len(trace)].kind = "authorize"
    /\ ~trace[Len(trace)].ok

\* C33: when every awaited call resolves or rejects, a run that has started
\* ends Completed (halted = false, one result per plan step) or Halted
\* (halted = true after a denied authorization); and once halted is set the
\* denial is the run's last call and payment_denied its last result.
C33_RunTerminates ==
    /\ [](pc = "authorize" => <>(EndedCompleted \/ EndedHalted))
    /\ [](halted =>
            /\ trace[Len(trace)].kind = "authorize" /\ ~trace[Len(trace)].ok
            /\ stepResults[Len(stepResults)].status = "payment_denied"
            /\ pc \in {"return", "idle"})

C33_Witness ==
    /\ EndedCompleted
    /\ onchain
    /\ Len(plan.steps) = 2
    /\ trace[Len(trace)].kind = "refund"
    /\ returned.results[Len(returned.results) - 1].status = "completed"
    /\ returned.results[Len(returned.results)].status = "failed"

\* ------------------------------------------------------------ malformed plans
\* The steps' indices are 0, 1, 2, ... by array position and their ids differ.
WellFormed(pl) ==
    /\ \A k \in 1..Len(pl.steps) : pl.steps[k].index = k - 1
    /\ \A j, k \in 1..Len(pl.steps) : j # k => pl.steps[j].id # pl.steps[k].id

\* C34: an executeAll call with a malformed plan (indices not 0, 1, 2, ... by
\* position, or two steps with one id) is rejected before any ledger call or
\* tool invocation: the run makes no call and produces no result.
C34_MalformedPlanRejected ==
    (runs > 0 /\ ~WellFormed(plan)) =>
        /\ trace = <<>>
        /\ stepResults = <<>>
        /\ pc \notin {"tool", "confirm", "refund", "return"}

\* ------------------------------------------------------------ tool context
\* The context the claim describes: the completed results of this run's
\* earlier steps, in the order in which the run produced them.
ExpectedContext ==
    LET done == SelectSeq(ProducedResults(trace), LAMBDA r : r.status = "completed")
    IN  [k \in 1..Len(done) |->
            [index |-> done[k].index, output_of |-> done[k].step_id]]

\* C35: when a step's tool is invoked, the context it is given holds only
\* completed results of earlier steps of the run, in index order, no failed or
\* payment_denied result, and nothing for the first step or when no earlier
\* step completed.
C35_ContextFromCompletedOnly ==
    pc = "tool" =>
        LET context == toolContext(plan.steps[pos]) IN
        /\ \A k \in 1..Len(context) :
               \E j \in 1..Len(ExpectedContext) : context[k] = ExpectedContext[j]
        /\ \A k \in 1..(Len(context) - 1) : context[k].index < context[k + 1].index
        /\ Len(context) <= Len(ExpectedContext)
        /\ ExpectedContext = <<>> => context = <<>>

\* ------------------------------------------------------------ runs
\* C39: an executeAll call returns the results of the steps of the plan it was
\* given and the spend of that run only, also when the Executor has run a plan
\* before.
C39_ReportsOwnRunOnly ==
    RunReturned =>
        /\ returned.results = ProducedResults(trace)
        /\ returned.totalSpent = CompletedCost(ProducedResults(trace))

\* ------------------------------------------------------------ escrow
\* The sum of totalLocked over the sessions of `ss` that exist and are not
\* settled.
RECURSIVE EscrowOwed(_)
EscrowOwed(ss) ==
    IF ss = {} THEN 0
    ELSE LET s == CHOOSE x \in ss : TRUE IN
         (IF sessions[s].payer # NoAddress /\ ~sessions[s].settled
          THEN sessions[s].totalLocked ELSE 0)
         + EscrowOwed(ss \ {s})

\* C36: as long as only lock and settle move tokens to or from the gate, the
\* tokens the gate holds are the sum of totalLocked over the sessions that
\* exist and are not yet settled: they are so at the start, every call of the
\* gate changes both by the same amount, and the gate never holds less, so a
\* settle pays out nothing that is escrowed for another session.
C36_EscrowConservation ==
    /\ balanceOf[Gate] = EscrowOwed(SessionIds)
    /\ [][lastCall'.op \in GateOps =>
              balanceOf'[Gate] - EscrowOwed(SessionIds)'
                  = balanceOf[Gate] - EscrowOwed(SessionIds)]_vars
    /\ [](balanceOf[Gate] >= EscrowOwed(SessionIds))

C36_Witness ==
    /\ lastCall.op = "settleBudget" /\ lastCall.ok
    /\ lastCall.amount > 0
    /\ sessions[lastCall.sid].settled
    /\ \E o \in SessionIds \ {lastCall.sid} :
           /\ sessions[o].payer # NoAddress /\ ~sessions[o].settled
           /\ balanceOf[Gate] = sessions[o].totalLocked
           /\ balanceOf[Gate] > 0

\* ------------------------------------------------------------ recoverability
\* C37: for every session that exists and is not settled, a settle call by the
\* operator with any totalSpent from 0 to totalLocked succeeds, whatever the
\* states of the session's steps and whatever totalSpent the gate recorded; and
\* when the operator keeps settling, every locked session is eventually
\* settled.
C37_LockedFundsRecoverable ==
    /\ [](\A sid \in SessionIds :
            (sessions[sid].payer # NoAddress /\ ~sessions[sid].settled) =>
                \A amt \in 0..sessions[sid].totalLocked :
                    settleBudgetRevert(operator, sid, amt) = Ok)
    /\ \A sid \in SessionIds :
           (sessions[sid].payer # NoAddress) ~> sessions[sid].settled

C37_Witness ==
    /\ lastCall.op = "settleBudget" /\ lastCall.ok
    /\ StepState(stepPayments[lastCall.sid]["step_0"]) = "Confirmed"
    /\ lastCall.amount < stepPayments[lastCall.sid]["step_0"].amount
    /\ \E o \in SessionIds \ {lastCall.sid} :
           /\ sessions[o].settled
           /\ StepState(stepPayments[o]["step_0"]) = "Authorized"

\* ------------------------------------------------------------ no step left open
\* The state the gate holds for the plan's step at position k.
GateStepState(k) == StepState(stepPayments[plan.session_id][plan.steps[k].id])

\* C38: when a run has returned and no confirm or refund call failed, no step
\* of the plan is Authorized at the gate: a step whose authorization succeeded
\* has a completed result and a confirm call after it and is Confirmed at the
\* gate, or a failed result and a refund call after it and is Refunded; a step
\* whose authorization was denied has no later call and is Unauthorized.
C38_NoStepLeftAuthorized ==
    (/\ RunReturned
     /\ \A j \in 1..Len(trace) :
            trace[j].kind \in {"confirm", "refund"} => trace[j].ok) =>
        LET rr == RunResults(returned.results) IN
        /\ \A k \in 1..Len(plan.steps) : GateStepState(k) # "Authorized"
        /\ \A j \in 1..Len(trace) :
               trace[j].kind = "authorize" =>
                   IF trace[j].ok
                   THEN \E i \in 1..Len(rr), c \in (j + 1)..Len(trace) :
                            /\ rr[i].step_id = trace[j].step_id
                            /\ trace[c].pos = trace[j].pos
                            /\ \/ /\ rr[i].status = "completed"
                                  /\ trace[c].kind = "confirm"
                                  /\ GateStepState(trace[j].pos) = "Confirmed"
                               \/ /\ rr[i].status = "failed"
                                  /\ trace[c].kind = "refund"
                                  /\ GateStepState(trace[j].pos) = "Refunded"
                   ELSE /\ GateStepState(trace[j].pos) = "Unauthorized"
                        /\ \A c \in (j + 1)..Len(trace) :
                               trace[c].pos # trace[j].pos

\* ------------------------------------------------------------ Planner
\* The cost of the first n of `steps`, in thousandths of a USD.
RECURSIVE CostOfPrefix(_, _)
CostOfPrefix(steps, n) ==
    IF n = 0 THEN 0
    ELSE CostOfPrefix(steps, n - 1) + steps[n].estimated_cost_usd

\* C40: the plan generatePlan returns holds the longest prefix of the
\* decomposed step list whose cumulative estimated cost is at most maxBudget
\* (the whole list when it fits); its total_estimated_cost is the sum of the
\* kept steps' costs and at most maxBudget; step_count is the number of kept
\* steps; and the k-th step has index k - 1.
C40_PlanFitsBudget ==
    planned # NoPlanned =>
        LET all == TypedSteps(planArgs.rawTools)
            fits == {n \in 0..Len(all) :
                        CostOfPrefix(all, n) <= planArgs.maxBudget}
            longest == CHOOSE n \in fits : \A m \in fits : m <= n
        IN  /\ planned.steps = SubSeq(all, 1, longest)
            /\ planned.total_estimated_cost = reduceCost(planned.steps)
            /\ DoubleGe(DoubleOf(planArgs.maxBudget), planned.total_estimated_cost)
            /\ planned.step_count = Len(planned.steps)
            /\ \A k \in 1..Len(planned.steps) : planned.steps[k].index = k - 1
====
